---- MODULE Spec2Model ----
(***************************************************************************)
(* Dispatch core of the ride-hailing backend.                              *)
(*                                                                         *)
(*   SpecOffer : the offer protocol of src/src/services/socketService.ts   *)
(*               (fan-out, accept, reject, expiry timer) over the keys it  *)
(*               keeps in the ephemeral store.                             *)
(*   SpecSync  : the location sync worker of                               *)
(*               src/src/services/locationSyncService.ts over the          *)
(*               Active-Dirty and Processing sets.                         *)
(*                                                                         *)
(* Every handler is an async function; an await on a store call is a       *)
(* point where other handlers run, so a handler is a sequence of actions   *)
(* cut at its awaits, and its position is kept in a pc field. Consecutive  *)
(* store calls that no other handler can tell apart form one action.       *)
(***************************************************************************)
EXTENDS Naturals, FiniteSets, Sequences, TLC

\* ---------------------------------------------------------------- bounds
\* Number of driver users that may call ride:accept / be named in an offer.
NumOfferDrivers == 2
\* ride:accept calls one driver channel may make for an offer.
MaxAcceptCalls == 1
\* Number of drivers whose positions the sync worker handles.
NumSyncDrivers == 2
\* Socket connections one driver identity opens.
NumChannels == 2
\* Number of H3 cells, laid out in a row.
NumCells == 2
\* location:update events of one connection being handled at a time.
MaxInFlight == 2
\* Candidates the nearby query keeps in one ring.
MaxCandidates == 3
\* The ring of the farthest cell a driver is placed in.
FarthestRing == 7

None == "none"

\* ------------------------------------------------------------ identities
\* A driver has two identities: the user id carried by its socket (the JWT
\* subject) and the id of its Driver document, which keys driver:location:*
\* and is what the rider's client lists in driverIds.
Users == {<<"u", i>> : i \in 1..NumOfferDrivers}
DriverIds == {<<"d", i>> : i \in 1..NumOfferDrivers}
DriverOf(u) == <<"d", u[2]>>
\* Driver.user: the user a Driver document belongs to.
UserOf(d) == <<"u", d[2]>>
Rider == <<"rider", 0>>
\* The identities a socket can carry.
Ids == Users \cup {Rider}
\* The value of an accepted marker that is not set.
NoUser == <<"nobody", 0>>
Requests == {"r1"}

\* socket.id of a connection: each connection has its own. A driver
\* identity opens NumChannels connections, the rider one.
Sock(u, c) == <<"s", u[2], c>>
RiderSock == <<"s", 0, 1>>
\* The socketId of a position record without one (null or undefined), and
\* the value of a socket:user key or connectedUsers entry that is absent.
NoSocket == <<"s", 0, 0>>
DriverSocks == {Sock(u, c) : u \in Users, c \in 1..NumChannels}
Socks == DriverSocks \cup {RiderSock}
\* The userId the authentication middleware attached to the connection.
OwnerOf(s) == IF s = RiderSock THEN Rider ELSE <<"u", s[2]>>

\* H3 cells (getCell of a coordinate pair); NoCell stands for no
\* coordinates given, or no cell known.
Cells == {<<"c", i>> : i \in 1..NumCells}
NoCell == <<"c", 0>>
HomeCell == <<"c", 1>>

SyncDrivers == 1..NumSyncDrivers

VARIABLES
    \* ---- ephemeral store, offer keys
    reqKey,         \* ride:request:<id> exists (holds the request, riderId = Rider)
    reqTtlElapsed,  \* 15 s have passed on the store's clock since that key was set
    sentKey,        \* ride:request:<id>:sent, a set of driver ids
    acceptedKey,    \* ride:request:<id>:accepted, a user id or NoUser
    socketUser,     \* socket:user:<id>, the socket id it holds or NoSocket
    loc,            \* driver:location:<driverId>
    requested,      \* the sockets ride:request was emitted to, per request
    cancelled,      \* the sockets ride:request:cancelled was emitted to, per request
    \* ---- connections and positions
    chan,           \* a connection: open, closing (disconnect being handled), closed
    connectedUsers, \* SocketService.connectedUsers, the socket id or NoSocket
    reg,            \* registerUser per driver connection
    disc,           \* handleDisconnect per driver connection: the record it read
    upd,            \* updateUserLocation per driver connection and event in flight
    driverDoc,      \* the Driver documents of the durable store
    everReg,        \* the connections that sent user:register
    h3set,          \* h3:drivers:<cell>, a set of driver ids
    ttlQueue,       \* the keys holding a 300 s TTL, the one written longest ago first
    query,          \* getNearbyDriversByH3
    \* ---- handlers in flight
    send,           \* sendRideRequestToDrivers per request
    timer,          \* the setTimeout of a request and its expireRideRequest
    acc,            \* handleRideAccept per driver channel
    \* ---- what was emitted
    riderGot,       \* events delivered to the rider's channel, per request
    driverGot,      \* answers to ride:accept calls, per request
    sentAtAccept,   \* the sent set at the moment a winner was written
    rejected,       \* users answered ride:reject:success, per request
    riderLive,      \* the rider has held its socket:user key since the offer was stored
    \* ---- ephemeral store, sync keys
    active,         \* drivers:locations:active
    processing,     \* drivers:locations:processing
    posLive,        \* driver:location:<id> exists (TTL not elapsed)
    \* ---- sync worker
    isRunning,      \* LocationSyncService.isRunning
    run,            \* the syncLocations invocations (cron tick, manual trigger)
    \* ---- durable store and bookkeeping
    pending,        \* enqueued and not durably persisted since
    fresh,          \* enqueued and not read by a gather since
    recovering,     \* the process was restarted and no run has moved a snapshot since
    lastRun,        \* how the last run ended, until the next one starts
    log,            \* what the last run left behind, if it merged failed ids back
    \* ---- ranking of the candidates of a ring
    rank,           \* the candidates kept by the nearby query, being ranked
    \* ---- ride request endpoint
    httpGot,        \* the status sendRideRequest answered a call it turned away with
    \* ---- ring search of the nearby query
    probe,          \* getNearbyDriversByH3 searching for one eligible driver
    \* ---- the statuses the sync worker carries to the durable store
    statusSync,     \* a syncLocations run, with the records it read
    asked,          \* the status last set through updateDriverStatus or blockDriver
    \* ---- set keys and their expiry
    noExpiry,       \* the set keys that exist with no TTL
    setWrite,       \* the writers of set keys between their sadd and their expire
    \* ---- the cron job of the sync worker
    cronJob,        \* LocationSyncService.cronJob is not null
    jobs,           \* the tasks scheduled with node-cron and not stopped
    started         \* calls of start since the last call of stop

offerVars == <<reqKey, reqTtlElapsed, sentKey, acceptedKey, socketUser, loc,
               send, timer, acc, riderGot, driverGot, sentAtAccept, rejected,
               riderLive, requested, cancelled>>
posVars == <<chan, connectedUsers, reg, disc, upd, driverDoc, everReg, h3set, ttlQueue, query>>
syncVars == <<active, processing, posLive, isRunning, run, pending, fresh,
              recovering, lastRun, log>>
rankVars == <<rank>>
statVars == <<statusSync, asked>>
ttlVars == <<noExpiry, setWrite>>
cronVars == <<cronJob, jobs, started>>
extVars == <<statVars, ttlVars, cronVars>>
ctlVars == <<httpGot, probe, extVars>>
vars == <<offerVars, posVars, syncVars, rankVars, ctlVars>>

\* ------------------------------------------------------ position records
\* driver:location:<driverId>. h3Index stands for the coordinates too: the
\* two are written together.
LocAbsent == [present |-> FALSE, socketId |-> NoSocket, isOnline |-> FALSE,
              isAvailable |-> FALSE, h3Index |-> NoCell]
LocNoSocket == [present |-> TRUE, socketId |-> NoSocket, isOnline |-> TRUE,
                isAvailable |-> TRUE, h3Index |-> HomeCell]
LocReady(d) == [present |-> TRUE, socketId |-> Sock(UserOf(d), 1), isOnline |-> TRUE,
                isAvailable |-> TRUE, h3Index |-> HomeCell]
LocStates(d) == {LocAbsent, LocNoSocket, LocReady(d)}

\* The checks of lines 253 and 262 left out.
DispatchableAlways(rec) == TRUE

\* Line 253 and line 262: a driver that fails this is skipped (reported
\* failed).
Dispatchable(rec) ==
    rec.present /\ rec.socketId # NoSocket /\ rec.isOnline /\ rec.isAvailable

\* redis.get of socket:user:<id>. The key space is that of user ids: a key
\* named by any other id does not exist.
SocketUserKey(id) == IF id \in Ids THEN socketUser[id] ELSE NoSocket

\* A Driver document, as far as the position paths read it.
GoodDoc == [isOnline |-> TRUE, isAvailable |-> TRUE, isVerified |-> TRUE, isBlocked |-> FALSE]

IdleReg == [pc |-> "idle", cell |-> NoCell, existing |-> LocAbsent]
IdleUpd == [pc |-> "idle", cell |-> NoCell, old |-> NoCell,
            isOnline |-> FALSE, isAvailable |-> FALSE, later |-> NoCell]
\* The events of one connection being handled, in the order in which they
\* were sent.
Slots == 1..MaxInFlight
\* No driver id counted.
NoTimes == [d \in DriverIds |-> 0]
\* getNearbyDriversByH3 at rest; drivers and searchRadius are the last
\* answer given. times counts the entries an id has in driverIds (line
\* 451) and, in an answer, in the list returned; reads counts the smembers
\* results of the ring that held the id.
IdleQuery == [pc |-> "idle", center |-> NoCell, k |-> 0, cells |-> {}, ids |-> {},
              todo |-> {}, docq |-> {}, valid |-> {}, drivers |-> {},
              searchRadius |-> 0, times |-> NoTimes, reads |-> NoTimes]

\* Connections, handlers and cell sets before any event: every position
\* record there is has its driver in the set of its cell, and the cell sets
\* were refreshed after the records were written.
InitPos ==
    /\ chan = [s \in Socks |-> "open"]
    /\ connectedUsers = [u \in Ids |-> NoSocket]
    /\ reg = [s \in DriverSocks |-> IdleReg]
    /\ disc = [s \in DriverSocks |-> LocAbsent]
    /\ upd = [s \in DriverSocks |-> [i \in Slots |-> IdleUpd]]
    /\ driverDoc = [d \in DriverIds |-> GoodDoc]
    /\ everReg = {}
    /\ h3set = [c \in Cells |-> {d \in DriverIds : loc[d].present /\ loc[d].h3Index = c}]
    /\ ttlQueue = SelectSeq([i \in 1..NumOfferDrivers |-> <<"d", i>>],
                            LAMBDA d : loc[d].present)
                  \o SelectSeq([i \in 1..NumCells |-> <<"c", i>>],
                               LAMBDA c : \E d \in DriverIds :
                                              loc[d].present /\ loc[d].h3Index = c)
    /\ query = IdleQuery

IdleSend == [pc |-> "idle", todo |-> {}, sent |-> {}, failed |-> {}]
IdleAcc == [pc |-> "idle", req |-> None, calls |-> 0, late |-> FALSE,
            answer |-> None]
NoEvents == [accepted |-> 0, expired |-> 0, failed |-> 0]
NoAnswers == [success |-> 0, failed |-> 0]

InitOffer ==
    /\ reqKey = [r \in Requests |-> FALSE]
    /\ reqTtlElapsed = [r \in Requests |-> FALSE]
    /\ sentKey = [r \in Requests |-> {}]
    /\ acceptedKey = [r \in Requests |-> NoUser]
    /\ loc \in {f \in [DriverIds -> UNION {LocStates(d) : d \in DriverIds}] :
                    \A d \in DriverIds : f[d] \in LocStates(d)}
    /\ socketUser = [u \in Ids |-> IF u \in Users THEN loc[DriverOf(u)].socketId ELSE NoSocket]
    /\ send = [r \in Requests |-> IdleSend]
    /\ timer = [r \in Requests |-> "unset"]
    /\ acc = [u \in Users |-> IdleAcc]
    /\ riderGot = [r \in Requests |-> NoEvents]
    /\ driverGot = [r \in Requests |-> NoAnswers]
    /\ sentAtAccept = [r \in Requests |-> {}]
    /\ rejected = [r \in Requests |-> {}]
    /\ riderLive = [r \in Requests |-> FALSE]
    /\ requested = [r \in Requests |-> {}]
    /\ cancelled = [r \in Requests |-> {}]

\* The offer side at rest, for the specification of the sync worker.
InitOfferIdle ==
    /\ InitOffer
    /\ loc = [d \in DriverIds |-> LocAbsent]

\* ------------------------------------------------- connection registry
\* registerUser, lines 113-135, the user:register event of connection s.
\* connectedUsers and socket:user:<userId> are written; for a driver that
\* sends coordinates (cell) the position record is read, to be written by
\* RegisterStore.
RegisterUser(s, cell) ==
    LET u == OwnerOf(s) IN
    /\ chan[s] = "open"
    /\ connectedUsers' = [connectedUsers EXCEPT ![u] = s]
    /\ socketUser' = [socketUser EXCEPT ![u] = s]
    /\ IF u \in Users /\ cell # NoCell
       THEN /\ reg[s].pc = "idle"
            /\ reg' = [reg EXCEPT ![s] = [pc |-> "store", cell |-> cell,
                                          existing |-> loc[DriverOf(u)]]]
       ELSE /\ u \in Users => reg[s].pc = "idle"
            /\ reg' = reg
    /\ UNCHANGED <<reqKey, reqTtlElapsed, sentKey, acceptedKey, loc, send, timer,
                   acc, riderGot, driverGot, sentAtAccept, rejected, riderLive,
                   requested, cancelled>>
    /\ everReg' = everReg \cup {s}
    /\ UNCHANGED <<chan, disc, upd, driverDoc, h3set, ttlQueue, query>>
    /\ UNCHANGED <<syncVars, rankVars, ctlVars>>

\* The cell sets after driver d was added to the set of cell c (sadd).
CellAdd(sets, c, d) == [sets EXCEPT ![c] = @ \cup {d}]

\* driver:location:<id> and h3:drivers:<cell> are always given a TTL of
\* 300 s (setex 300, expire 300), so these keys run out in the order in
\* which they were last given one. Touch: key k is given its TTL anew.
Without(q, k) == SelectSeq(q, LAMBDA x : x # k)
Touch(q, k) == Append(Without(q, k), k)
\* A set that srem left empty is no key any more.
Prune(q, sets) == SelectSeq(q, LAMBDA k : k \in DriverIds \/ sets[k] # {})
\* setex of the record of d, then sadd and expire of the set of cell c.
TouchBoth(q, d, c) == Touch(Touch(q, d), c)

\* registerUser, lines 137-160: an existing record keeps its fields and
\* gets the socket id; otherwise a new record is made from the coordinates
\* and the Driver document. The driver is added to the set of the cell of
\* the coordinates sent.
RegisterStore(s) ==
    LET u == OwnerOf(s)
        d == DriverOf(u)
        c == reg[s].cell
        rec == IF reg[s].existing.present
               THEN [reg[s].existing EXCEPT !.socketId = s]
               ELSE [present |-> TRUE, socketId |-> s,
                     isOnline |-> driverDoc[d].isOnline,
                     isAvailable |-> driverDoc[d].isAvailable, h3Index |-> c]
    IN
    /\ reg[s].pc = "store"
    /\ loc' = [loc EXCEPT ![d] = rec]
    /\ h3set' = CellAdd(h3set, c, d)
    /\ ttlQueue' = TouchBoth(ttlQueue, d, c)
    /\ reg' = [reg EXCEPT ![s] = IdleReg]
    /\ UNCHANGED <<reqKey, reqTtlElapsed, sentKey, acceptedKey, socketUser, send, timer,
                   acc, riderGot, driverGot, sentAtAccept, rejected, riderLive,
                   requested, cancelled>>
    /\ UNCHANGED <<chan, connectedUsers, disc, upd, driverDoc, everReg, query>>
    /\ UNCHANGED <<syncVars, rankVars, ctlVars>>

\* handleDisconnect, lines 419-428, the disconnect event of connection s.
\* Without a connectedUsers entry for the user nothing is done. For a
\* driver the position record is read, to be written by DisconnectStore;
\* for the rider lines 440-443 delete the registry entries.
HandleDisconnect(s) ==
    LET u == OwnerOf(s) IN
    /\ chan[s] = "open"
    /\ IF connectedUsers[u] = NoSocket
       THEN /\ chan' = [chan EXCEPT ![s] = "closed"]
            /\ UNCHANGED <<disc, socketUser, connectedUsers, riderLive>>
       ELSE IF u \in Users
       THEN /\ chan' = [chan EXCEPT ![s] = "closing"]
            /\ disc' = [disc EXCEPT ![s] = loc[DriverOf(u)]]
            /\ UNCHANGED <<socketUser, connectedUsers, riderLive>>
       ELSE /\ chan' = [chan EXCEPT ![s] = "closed"]
            /\ socketUser' = [socketUser EXCEPT ![u] = NoSocket]
            /\ connectedUsers' = [connectedUsers EXCEPT ![u] = NoSocket]
            /\ riderLive' = [r \in Requests |-> FALSE]
            /\ UNCHANGED disc
    /\ UNCHANGED <<reqKey, reqTtlElapsed, sentKey, acceptedKey, loc, send, timer,
                   acc, riderGot, driverGot, sentAtAccept, rejected,
                   requested, cancelled>>
    /\ UNCHANGED <<reg, upd, driverDoc, everReg, h3set, ttlQueue, query>>
    /\ UNCHANGED <<syncVars, rankVars, ctlVars>>

\* handleDisconnect, lines 430-443: the record that was read is written
\* back with socketId null and a new 300 s TTL, then socket:user:<userId>
\* and the connectedUsers entry are deleted, whichever connection they
\* name.
DisconnectStore(s) ==
    LET u == OwnerOf(s)
        d == DriverOf(u)
    IN
    /\ chan[s] = "closing"
    /\ loc' = IF disc[s].present
              THEN [loc EXCEPT ![d] = [disc[s] EXCEPT !.socketId = NoSocket]]
              ELSE loc
    /\ ttlQueue' = IF disc[s].present THEN Touch(ttlQueue, d) ELSE ttlQueue
    /\ socketUser' = [socketUser EXCEPT ![u] = NoSocket]
    /\ connectedUsers' = [connectedUsers EXCEPT ![u] = NoSocket]
    /\ chan' = [chan EXCEPT ![s] = "closed"]
    /\ disc' = [disc EXCEPT ![s] = LocAbsent]
    /\ UNCHANGED <<reqKey, reqTtlElapsed, sentKey, acceptedKey, send, timer,
                   acc, riderGot, driverGot, sentAtAccept, rejected, riderLive,
                   requested, cancelled>>
    /\ UNCHANGED <<reg, upd, driverDoc, everReg, h3set, query>>
    /\ UNCHANGED <<syncVars, rankVars, ctlVars>>

\* ----------------------------------------------------- position upserts
\* updateUserLocation, lines 179-200, the location:update event of
\* connection s with coordinates in cell: without a connectedUsers entry
\* for the user the handler returns; otherwise the Driver document and the
\* position record are read, the record for its cell (oldH3Cell).
\* handleConnection, lines 87-90: the handler of an event is started when
\* the event arrives, whether or not the handler of an earlier event of
\* the connection has returned. i is the place of the event among those
\* in flight: the events before it were sent earlier and none after it is
\* being handled yet.
UpdateLoad(s, i, cell) ==
    LET u == OwnerOf(s)
        d == DriverOf(u)
    IN
    /\ chan[s] = "open"
    /\ \A j \in Slots : j >= i => upd[s][j].pc = "idle"
    /\ i > 1 => upd[s][i - 1].pc = "store"
    /\ connectedUsers[u] # NoSocket
    /\ upd' = [upd EXCEPT ![s][i] =
                  [pc |-> "store", cell |-> cell,
                   old |-> IF loc[d].present THEN loc[d].h3Index ELSE NoCell,
                   isOnline |-> driverDoc[d].isOnline,
                   isAvailable |-> driverDoc[d].isAvailable,
                   later |-> NoCell]]
    /\ UNCHANGED offerVars
    /\ UNCHANGED <<chan, connectedUsers, reg, disc, driverDoc, everReg, h3set, ttlQueue, query>>
    /\ UNCHANGED <<syncVars, rankVars, ctlVars>>

\* updateUserLocation, lines 202-221: the record is rewritten whole with
\* the socket id of this connection, the driver leaves the set of the old
\* cell if that was read and differs, and enters the set of the new cell.
\* The handlers of earlier events that are still in flight are marked with
\* the cell this later event has written (later).
UpdateStore(s, i) ==
    LET u == OwnerOf(s)
        d == DriverOf(u)
        c == upd[s][i].cell
        old == upd[s][i].old
        left == IF old # NoCell /\ old # c
                THEN [h3set EXCEPT ![old] = @ \ {d}]
                ELSE h3set
    IN
    /\ upd[s][i].pc = "store"
    /\ loc' = [loc EXCEPT ![d] = [present |-> TRUE, socketId |-> s,
                                  isOnline |-> upd[s][i].isOnline,
                                  isAvailable |-> upd[s][i].isAvailable,
                                  h3Index |-> c]]
    /\ h3set' = CellAdd(left, c, d)
    /\ ttlQueue' = TouchBoth(Prune(ttlQueue, left), d, c)
    /\ upd' = [upd EXCEPT ![s] =
                  [j \in Slots |->
                      IF j = i THEN IdleUpd
                      ELSE IF j < i /\ upd[s][j].pc = "store"
                           THEN [upd[s][j] EXCEPT !.later = c]
                           ELSE upd[s][j]]]
    /\ UNCHANGED <<reqKey, reqTtlElapsed, sentKey, acceptedKey, socketUser, send, timer,
                   acc, riderGot, driverGot, sentAtAccept, rejected, riderLive,
                   requested, cancelled>>
    /\ UNCHANGED <<chan, connectedUsers, reg, disc, driverDoc, everReg, query>>
    /\ UNCHANGED <<syncVars, rankVars, ctlVars>>

\* updateDriverLocation, the HTTP endpoint, for the driver of user u with
\* coordinates in cell: an unverified driver is turned away; the record is
\* written whole, without a socketId, and the driver enters the set of the
\* new cell.
HttpUpdateLocation(u, cell) ==
    LET d == DriverOf(u) IN
    /\ driverDoc[d].isVerified
    /\ loc' = [loc EXCEPT ![d] = [present |-> TRUE, socketId |-> NoSocket,
                                  isOnline |-> driverDoc[d].isOnline,
                                  isAvailable |-> driverDoc[d].isAvailable,
                                  h3Index |-> cell]]
    /\ h3set' = CellAdd(h3set, cell, d)
    /\ ttlQueue' = TouchBoth(ttlQueue, d, cell)
    /\ UNCHANGED <<reqKey, reqTtlElapsed, sentKey, acceptedKey, socketUser, send, timer,
                   acc, riderGot, driverGot, sentAtAccept, rejected, riderLive,
                   requested, cancelled>>
    /\ UNCHANGED <<chan, connectedUsers, reg, disc, upd, driverDoc, everReg, query>>
    /\ UNCHANGED <<syncVars, rankVars, ctlVars>>

\* The 300 s TTL of driver:location:<id> elapses.
LocTtl(d) ==
    /\ ttlQueue # <<>> /\ Head(ttlQueue) = d
    /\ loc' = [loc EXCEPT ![d] = LocAbsent]
    /\ ttlQueue' = Tail(ttlQueue)
    /\ UNCHANGED <<reqKey, reqTtlElapsed, sentKey, acceptedKey, socketUser, send, timer,
                   acc, riderGot, driverGot, sentAtAccept, rejected, riderLive,
                   requested, cancelled>>
    /\ UNCHANGED <<chan, connectedUsers, reg, disc, upd, driverDoc, everReg, h3set, query>>
    /\ UNCHANGED <<syncVars, rankVars, ctlVars>>

\* The 300 s TTL of h3:drivers:<cell> elapses: the whole set goes. Every
\* sadd to the set is followed by expire 300, so the set outlives each
\* position record that was written just before such a sadd.
CellTtl(c) ==
    /\ ttlQueue # <<>> /\ Head(ttlQueue) = c
    /\ h3set' = [h3set EXCEPT ![c] = {}]
    /\ ttlQueue' = Tail(ttlQueue)
    /\ UNCHANGED offerVars
    /\ UNCHANGED <<chan, connectedUsers, reg, disc, upd, driverDoc, everReg, query>>
    /\ UNCHANGED <<syncVars, rankVars, ctlVars>>

\* ------------------------------------------------- Driver documents
\* blockDriver, part_006 lines 176-196: isBlocked is set as asked; a
\* driver that is blocked is also set offline and unavailable. asked keeps
\* the status an endpoint set last.
BlockDriver(d, isBlocked) ==
    /\ driverDoc' = [driverDoc EXCEPT ![d] =
                        IF isBlocked
                        THEN [@ EXCEPT !.isBlocked = TRUE, !.isOnline = FALSE,
                                       !.isAvailable = FALSE]
                        ELSE [@ EXCEPT !.isBlocked = FALSE]]
    /\ asked' = IF isBlocked
                THEN [asked EXCEPT ![d] = [isOnline |-> FALSE, isAvailable |-> FALSE]]
                ELSE asked
    /\ UNCHANGED offerVars
    /\ UNCHANGED <<chan, connectedUsers, reg, disc, upd, everReg, h3set, ttlQueue, query>>
    /\ UNCHANGED <<syncVars, rankVars, httpGot, probe, statusSync, ttlVars, cronVars>>

\* verifyDriver, part_006 lines 208-221.
VerifyDriver(d, isVerified) ==
    /\ driverDoc' = [driverDoc EXCEPT ![d].isVerified = isVerified]
    /\ UNCHANGED offerVars
    /\ UNCHANGED <<chan, connectedUsers, reg, disc, upd, everReg, h3set, ttlQueue, query>>
    /\ UNCHANGED <<syncVars, rankVars, ctlVars>>

\* ------------------------------------------- getNearbyDriversByH3
\* The number of rings searched beyond the centre cell, line 437.
maxRadius == 5

\* h3 gridDisk(center, k), line 450: the cells within k steps of center.
\* The cells are laid out on a line, cell i next to cell i + 1.
GridDisk(center, k) ==
    {c \in Cells : c[2] - center[2] <= k /\ center[2] - c[2] <= k}

\* Lines 471 and 476: the position record is there, online and available.
RecordOk(rec) == rec.present /\ rec.isOnline /\ rec.isAvailable

\* The check of line 483 left out.
DocOkAlways(doc) == TRUE

\* Line 483: the Driver document is verified and not blocked.
DocOk(doc) == ~doc.isBlocked /\ doc.isVerified

\* The check of line 542 never passing.
SurvivorsNever(valid) == FALSE

\* Line 542: at least one candidate of the ring was kept.
Survivors(valid) == valid # {}

\* The search goes on to ring k, or gives the empty answer of lines
\* 551-557 when maxRadius has been searched.
NextRing(k) ==
    IF k <= maxRadius
    THEN [query EXCEPT !.pc = "scan", !.k = k, !.cells = GridDisk(query.center, k),
                       !.ids = {}, !.todo = {}, !.docq = {}, !.valid = {},
                       !.times = NoTimes, !.reads = NoTimes]
    ELSE [IdleQuery EXCEPT !.searchRadius = maxRadius]

\* Lines 429-447: a query with the coordinates of cell center starts at
\* ring 0.
QueryStart(center) ==
    /\ query.pc = "idle"
    /\ query' = [IdleQuery EXCEPT !.pc = "scan", !.center = center,
                                  !.cells = GridDisk(center, 0)]
    /\ UNCHANGED offerVars
    /\ UNCHANGED <<chan, connectedUsers, reg, disc, upd, driverDoc, everReg, h3set, ttlQueue>>
    /\ UNCHANGED <<syncVars, rankVars, ctlVars>>

\* driverIds an array, each id of a cell pushed to it: the entries of an
\* id after a cell was read that held it (member) or did not.
ArrayPush(n, member) == IF member THEN n + 1 ELSE n

\* Lines 451 and 455: driverIds is a Set, and add of an id it holds
\* leaves it with one entry for the id.
SetAdd(n, member) == IF member THEN 1 ELSE n

\* Lines 453-456: smembers of one cell of the ring, added to the Set of
\* driver ids.
QueryReadCell(c) ==
    /\ query.pc = "scan"
    /\ c \in query.cells
    /\ query' = [query EXCEPT
                    !.cells = @ \ {c},
                    !.ids = @ \cup h3set[c],
                    !.times = [d \in DriverIds |-> SetAdd(@[d], d \in h3set[c])],
                    !.reads = [d \in DriverIds |-> ArrayPush(@[d], d \in h3set[c])]]
    /\ UNCHANGED offerVars
    /\ UNCHANGED <<chan, connectedUsers, reg, disc, upd, driverDoc, everReg, h3set, ttlQueue>>
    /\ UNCHANGED <<syncVars, rankVars, ctlVars>>

\* Lines 459-468: with no id in the ring the search goes on to the next
\* ring; otherwise every id becomes a candidate.
QueryRingRead ==
    /\ query.pc = "scan"
    /\ query.cells = {}
    /\ query' = IF query.ids = {}
                THEN NextRing(query.k + 1)
                ELSE [query EXCEPT !.pc = "examine", !.todo = query.ids]
    /\ UNCHANGED offerVars
    /\ UNCHANGED <<chan, connectedUsers, reg, disc, upd, driverDoc, everReg, h3set, ttlQueue>>
    /\ UNCHANGED <<syncVars, rankVars, ctlVars>>

\* Lines 468-476: the position record of candidate d is read; the
\* candidate is dropped unless the record is there, online and available.
QueryGetRecord(d) ==
    /\ query.pc = "examine"
    /\ d \in query.todo
    /\ query' = [query EXCEPT !.todo = @ \ {d},
                              !.docq = IF RecordOk(loc[d]) THEN @ \cup {d} ELSE @]
    /\ UNCHANGED offerVars
    /\ UNCHANGED <<chan, connectedUsers, reg, disc, upd, driverDoc, everReg, h3set, ttlQueue>>
    /\ UNCHANGED <<syncVars, rankVars, ctlVars>>

\* Lines 479-483: the Driver document of candidate d is read; the
\* candidate is dropped if the driver is blocked or not verified.
QueryGetDoc(d) ==
    /\ query.pc = "examine"
    /\ d \in query.docq
    /\ query' = [query EXCEPT !.docq = @ \ {d},
                              !.valid = IF DocOk(driverDoc[d]) THEN @ \cup {d} ELSE @]
    /\ UNCHANGED offerVars
    /\ UNCHANGED <<chan, connectedUsers, reg, disc, upd, driverDoc, everReg, h3set, ttlQueue>>
    /\ UNCHANGED <<syncVars, rankVars, ctlVars>>

\* Lines 530-557: when every candidate of the ring has been dealt with,
\* the candidates kept are the answer, with the ring as searchRadius; if
\* none was kept the search goes on to the next ring.
QueryRingDone ==
    /\ query.pc = "examine"
    /\ query.todo = {} /\ query.docq = {}
    /\ query' = IF Survivors(query.valid)
                THEN [IdleQuery EXCEPT
                         !.drivers = query.valid,
                         !.searchRadius = query.k,
                         !.times = [d \in DriverIds |->
                                       IF d \in query.valid THEN query.times[d] ELSE 0],
                         !.reads = [d \in DriverIds |->
                                       IF d \in query.valid THEN query.reads[d] ELSE 0]]
                ELSE NextRing(query.k + 1)
    /\ UNCHANGED offerVars
    /\ UNCHANGED <<chan, connectedUsers, reg, disc, upd, driverDoc, everReg, h3set, ttlQueue>>
    /\ UNCHANGED <<syncVars, rankVars, ctlVars>>

\* ------------------------------------------- ranking of candidates
\* Lines 484-539 of getNearbyDriversByH3: each candidate kept gets its
\* straight-line distance and an ETA from the routing service, then the
\* candidates are sorted.
\* Straight-line distances in metres (distance, line 518).
DistancesM == {400, 1000, 1200}
\* route.duration of the routing service, in seconds.
DurationSecs == {20, 60, 90, 120}
\* let eta = null, line 495.
NoEta == 0 - 1

\* Math.round of a non-negative quotient num / den.
RoundDiv(num, den) == (2 * num + den) \div (2 * den)

\* Line 507: the ETA in minutes from a route of duration seconds.
RouteEta(duration) == RoundDiv(duration, 60)
\* Line 514: the ETA estimated from the straight-line distance at 30 km/h,
\* (km / 30) * 60 minutes, the distance given here in metres.
FallbackEta(metres) == RoundDiv(metres, 500)

\* What the routing service did for one candidate: a route, an answer
\* without a route (not ok, code not Ok, no routes), or fetch throwing.
RouteOutcomes ==
    {[kind |-> "route", duration |-> t] : t \in DurationSecs}
        \cup {[kind |-> "noroute", duration |-> 0], [kind |-> "throw", duration |-> 0]}

\* Lines 495-515: the ETA of a candidate at distance metres.
EtaOf(outcome, metres) ==
    CASE outcome.kind = "route" -> RouteEta(outcome.duration)
      [] outcome.kind = "noroute" -> NoEta
      [] outcome.kind = "throw" -> FallbackEta(metres)

\* a.eta && b.eta, line 535: null and 0 are falsy.
Truthy(eta) == eta # NoEta /\ eta # 0

\* The comparator of lines 533-538.
Compare(a, b) ==
    IF Truthy(a.eta) /\ Truthy(b.eta)
    THEN a.eta - b.eta
    ELSE a.distance - b.distance

\* The comparator orders the candidates consistently (a total preorder).
Consistent(cs) ==
    \A i, j, k \in DOMAIN cs :
        (Compare(cs[i], cs[j]) <= 0 /\ Compare(cs[j], cs[k]) <= 0)
            => Compare(cs[i], cs[k]) <= 0

Perms(n) == {p \in [1..n -> 1..n] : \A i, j \in 1..n : i # j => p[i] # p[j]}

\* Array.prototype.sort with the comparator: the sort is stable, so with a
\* consistent comparator there is one outcome, candidates that compare
\* equal keeping their order; with an inconsistent one the order is
\* implementation-defined.
SortOutcomes(cs) ==
    LET n == Len(cs)
        Sorted(p) == \A i, j \in 1..n :
                         i < j => \/ Compare(cs[p[i]], cs[p[j]]) < 0
                                  \/ /\ Compare(cs[p[i]], cs[p[j]]) = 0
                                     /\ p[i] < p[j]
    IN  {[i \in 1..n |-> cs[p[i]]] :
            p \in {q \in Perms(n) : Consistent(cs) => Sorted(q)}}

IdleRank == [pc |-> "idle", cands |-> <<>>, drivers |-> <<>>]

\* The ring search not called.
IdleProbe == [pc |-> "idle", p |-> 0, q |-> 0, k |-> 0, found |-> FALSE,
              searchRadius |-> 0]

\* ------------------------------------------- statuses carried by a sync
\* The drivers whose status the endpoints and the sync worker write.
StatusDrivers == {<<"d", 1>>}

\* A syncLocations run at rest. activeKeys, locationData and failedUpdates
\* are the locals of lines 77, 98 and 119; todo the ids the loop of line
\* 100 has left; waiting the updates of line 122 not yet settled.
IdleStatusSync == [pc |-> "idle", activeKeys |-> {}, todo |-> {},
                   locationData |-> [d \in StatusDrivers |-> LocAbsent],
                   waiting |-> {}, failedUpdates |-> {}]

\* No run, and the status of every driver as its document was created.
InitStatus ==
    /\ statusSync = IdleStatusSync
    /\ asked = [d \in DriverIds |-> [isOnline |-> GoodDoc.isOnline,
                                     isAvailable |-> GoodDoc.isAvailable]]

\* ------------------------------------------------ set keys and expiry
\* The code sites that write a set key with sadd and then expire:
\* registerUser (lines 159-160), updateUserLocation (lines 220-221) and
\* sendRideRequestToDrivers (lines 275-276).
SetWriters == {"registerUser", "updateUserLocation", "sendRideRequestToDrivers"}
IdleSetWrite == [pc |-> "idle", cell |-> NoCell]

InitSetKeys ==
    /\ noExpiry = [cells |-> {}, sent |-> {}]
    /\ setWrite = [w \in SetWriters |-> IdleSetWrite]

\* ------------------------------------------------------- the cron job
\* Line 26: the service is constructed with no cron job.
InitCron ==
    /\ cronJob = FALSE
    /\ jobs = 0
    /\ started = 0

\* The endpoints not called, no sync run, no set key being written, the
\* service constructed (line 26) and not started.
InitCtl ==
    /\ httpGot = [r \in Requests |-> None]
    /\ InitStatus
    /\ InitSetKeys
    /\ InitCron

InitRank ==
    /\ rank = IdleRank
    /\ probe = IdleProbe
    /\ InitCtl

\* The candidates kept in a ring, in the order of the Set of ids, each
\* with its straight-line distance and its request to the routing
\* service not yet answered.
InitRankInputs ==
    rank \in {[pc |-> "route", cands |-> cs, drivers |-> <<>>] :
                cs \in UNION {[1..n -> [distance : DistancesM, routed : {FALSE},
                                        eta : {NoEta}]] : n \in 0..MaxCandidates}}

\* Lines 495-515 for candidate i.
RankRoute(i, outcome) ==
    /\ rank.pc = "route"
    /\ i \in DOMAIN rank.cands
    /\ ~rank.cands[i].routed
    /\ rank' = [rank EXCEPT !.cands[i].routed = TRUE,
                            !.cands[i].eta = EtaOf(outcome, rank.cands[i].distance)]
    /\ UNCHANGED <<offerVars, posVars, syncVars, ctlVars>>

\* Lines 530-539: Promise.all has settled; the candidates are sorted.
RankSort ==
    /\ rank.pc = "route"
    /\ \A i \in DOMAIN rank.cands : rank.cands[i].routed
    /\ \E out \in SortOutcomes(rank.cands) :
          rank' = [rank EXCEPT !.pc = "sorted", !.drivers = out]
    /\ UNCHANGED <<offerVars, posVars, syncVars, ctlVars>>

\* ------------------------------------------------------ sendRideRequest
\* The checks of ride.request.controller.ts lines 15-21 left out.
ControllerAcceptsAll(ids, withRoute) == TRUE

\* ride.request.controller.ts lines 15-21: driverIds is a non-empty array
\* (ids = {} stands for a missing, non-array or empty driverIds) and
\* pickup and destination are given (withRoute).
ControllerAccepts(ids, withRoute) == ids # {} /\ withRoute

\* ride.request.controller.ts lines 15-21: a call that fails the checks is
\* answered 400 and nothing else is done. r is the call.
SendRideRequestRejected(r, ids, withRoute) ==
    /\ send[r].pc = "idle"
    /\ httpGot[r] = None
    /\ ~ControllerAccepts(ids, withRoute)
    /\ httpGot' = [httpGot EXCEPT ![r] = "400"]
    /\ UNCHANGED <<offerVars, posVars, syncVars, rankVars, probe, extVars>>

\* ------------------------------------------- sendRideRequestToDrivers
\* Lines 243-245: the request is stored with a 15 s TTL. ids is the
\* driverIds list of a call the controller let through.
SendStore(r, ids) ==
    /\ send[r].pc = "idle"
    /\ httpGot[r] = None
    /\ ControllerAccepts(ids, TRUE)
    /\ reqKey' = [reqKey EXCEPT ![r] = TRUE]
    /\ send' = [send EXCEPT ![r] = [pc |-> "loop", todo |-> ids, sent |-> {}, failed |-> {}]]
    /\ riderLive' = [riderLive EXCEPT ![r] = SocketUserKey(Rider) # NoSocket]
    /\ UNCHANGED <<reqTtlElapsed, sentKey, acceptedKey, socketUser, loc, timer,
                   acc, riderGot, driverGot, sentAtAccept, rejected>>
    /\ UNCHANGED <<requested, cancelled>>
    /\ UNCHANGED <<posVars, syncVars, rankVars, ctlVars>>

\* Lines 247-284, one iteration: a driver without a dispatchable position
\* record is reported failed; otherwise ride:request is emitted to the
\* socket id of the record and the driver id is added to the sent set.
SendToDriver(r, d) ==
    /\ send[r].pc = "loop"
    /\ d \in send[r].todo
    /\ IF Dispatchable(loc[d])
       THEN /\ requested' = [requested EXCEPT ![r] = @ \cup {loc[d].socketId}]
            /\ sentKey' = [sentKey EXCEPT ![r] = @ \cup {d}]
            /\ send' = [send EXCEPT ![r].todo = @ \ {d}, ![r].sent = @ \cup {d}]
       ELSE /\ requested' = requested
            /\ sentKey' = sentKey
            /\ send' = [send EXCEPT ![r].todo = @ \ {d}, ![r].failed = @ \cup {d}]
    /\ UNCHANGED <<reqKey, reqTtlElapsed, acceptedKey, socketUser, loc, timer,
                   acc, riderGot, driverGot, sentAtAccept, rejected, riderLive>>
    /\ UNCHANGED cancelled
    /\ UNCHANGED <<posVars, syncVars, rankVars, ctlVars>>

\* Lines 286-291: the 15 s timer is set once the loop is over.
SendSetTimer(r) ==
    /\ send[r].pc = "loop"
    /\ send[r].todo = {}
    /\ send' = [send EXCEPT ![r].pc = "done"]
    /\ timer' = [timer EXCEPT ![r] = "armed"]
    /\ UNCHANGED <<reqKey, reqTtlElapsed, sentKey, acceptedKey, socketUser, loc,
                   acc, riderGot, driverGot, sentAtAccept, rejected, riderLive>>
    /\ UNCHANGED <<requested, cancelled>>
    /\ UNCHANGED <<posVars, syncVars, rankVars, ctlVars>>

\* ------------------------------------------------------- key lifetimes
\* The store drops ride:request:<id> 15 s after line 245 set it. The store
\* measures these 15 s on its own clock and the timer of line 287 measures
\* its 15 s on the event loop's clock, so either may come first.
RequestTtl(r) ==
    /\ send[r].pc # "idle"
    /\ ~reqTtlElapsed[r]
    /\ reqTtlElapsed' = [reqTtlElapsed EXCEPT ![r] = TRUE]
    /\ reqKey' = [reqKey EXCEPT ![r] = FALSE]
    /\ UNCHANGED <<sentKey, acceptedKey, socketUser, loc, send, timer,
                   acc, riderGot, driverGot, sentAtAccept, rejected, riderLive>>
    /\ UNCHANGED <<requested, cancelled>>
    /\ UNCHANGED <<posVars, syncVars, rankVars, ctlVars>>

\* Line 276: the sent set lives 20 s past its last write, hence longer
\* than the request key.
SentTtl(r) ==
    /\ reqTtlElapsed[r]
    /\ send[r].pc = "done"
    /\ sentKey[r] # {}
    /\ sentKey' = [sentKey EXCEPT ![r] = {}]
    /\ UNCHANGED <<reqKey, reqTtlElapsed, acceptedKey, socketUser, loc, send, timer,
                   acc, riderGot, driverGot, sentAtAccept, rejected, riderLive>>
    /\ UNCHANGED <<requested, cancelled>>
    /\ UNCHANGED <<posVars, syncVars, rankVars, ctlVars>>

\* Line 351: the accepted marker lives 60 s, hence longer than the
\* request key.
AcceptedTtl(r) ==
    /\ reqTtlElapsed[r]
    /\ acceptedKey[r] # NoUser
    /\ acceptedKey' = [acceptedKey EXCEPT ![r] = NoUser]
    /\ UNCHANGED <<reqKey, reqTtlElapsed, sentKey, socketUser, loc, send, timer,
                   acc, riderGot, driverGot, sentAtAccept, rejected, riderLive>>
    /\ UNCHANGED <<requested, cancelled>>
    /\ UNCHANGED <<posVars, syncVars, rankVars, ctlVars>>

\* --------------------------------------------------- expireRideRequest
\* Lines 287-289 and 299-302: the timer fires and loads the request.
TimerFire(r) ==
    /\ timer[r] = "armed"
    /\ timer' = [timer EXCEPT ![r] = IF reqKey[r] THEN "loaded" ELSE "done"]
    /\ UNCHANGED <<reqKey, reqTtlElapsed, sentKey, acceptedKey, socketUser, loc,
                   send, acc, riderGot, driverGot, sentAtAccept, rejected, riderLive>>
    /\ UNCHANGED <<requested, cancelled>>
    /\ UNCHANGED <<posVars, syncVars, rankVars, ctlVars>>

\* Lines 305-313: the rider is told, if it has a socket:user key.
ExpireNotify(r) ==
    /\ timer[r] = "loaded"
    /\ timer' = [timer EXCEPT ![r] = "notified"]
    /\ riderGot' = IF SocketUserKey(Rider) # NoSocket
                   THEN [riderGot EXCEPT ![r].expired = @ + 1]
                   ELSE riderGot
    /\ UNCHANGED <<reqKey, reqTtlElapsed, sentKey, acceptedKey, socketUser, loc,
                   send, acc, driverGot, sentAtAccept, rejected, riderLive>>
    /\ UNCHANGED <<requested, cancelled>>
    /\ UNCHANGED <<posVars, syncVars, rankVars, ctlVars>>

\* Lines 315-317: the request and its sent set are deleted.
ExpireCleanup(r) ==
    /\ timer[r] = "notified"
    /\ timer' = [timer EXCEPT ![r] = "done"]
    /\ reqKey' = [reqKey EXCEPT ![r] = FALSE]
    /\ sentKey' = [sentKey EXCEPT ![r] = {}]
    /\ UNCHANGED <<reqTtlElapsed, acceptedKey, socketUser, loc,
                   send, acc, riderGot, driverGot, sentAtAccept, rejected, riderLive>>
    /\ UNCHANGED <<requested, cancelled>>
    /\ UNCHANGED <<posVars, syncVars, rankVars, ctlVars>>

\* ---------------------------------------------------- handleRideAccept
\* The load of lines 332-334 with its absence check dropped.
RequestLoadedUnchecked(r) == TRUE

\* Lines 332-334: what redis.get of the request key yields.
RequestLoaded(r) == reqKey[r]

\* Lines 331-339: the request is loaded; an absent request is answered
\* with ride:accept:failed. u is the user id of the calling socket. The
\* request id is the uuid drawn at ride.request.controller.ts:23, so no
\* call names it before the request is stored.
AcceptLoad(u, r) ==
    /\ send[r].pc # "idle"
    /\ acc[u].pc = "idle"
    /\ acc[u].calls < MaxAcceptCalls
    /\ IF RequestLoaded(r)
       THEN /\ acc' = [acc EXCEPT ![u] = [pc |-> "check", req |-> r, calls |-> @.calls + 1,
                                          late |-> reqTtlElapsed[r], answer |-> None]]
            /\ driverGot' = driverGot
       ELSE /\ acc' = [acc EXCEPT ![u] = [pc |-> "idle", req |-> r, calls |-> @.calls + 1,
                                          late |-> reqTtlElapsed[r], answer |-> "failed"]]
            /\ driverGot' = [driverGot EXCEPT ![r].failed = @ + 1]
    /\ UNCHANGED <<reqKey, reqTtlElapsed, sentKey, acceptedKey, socketUser, loc,
                   send, timer, riderGot, sentAtAccept, rejected, riderLive>>
    /\ UNCHANGED <<requested, cancelled>>
    /\ UNCHANGED <<posVars, syncVars, rankVars, ctlVars>>

\* Lines 341-348: the accepted marker is read; a marker that is set is
\* answered with ride:accept:failed.
AcceptCheck(u) ==
    /\ acc[u].pc = "check"
    /\ IF acceptedKey[acc[u].req] # NoUser
       THEN /\ acc' = [acc EXCEPT ![u].pc = "idle", ![u].answer = "failed"]
            /\ driverGot' = [driverGot EXCEPT ![acc[u].req].failed = @ + 1]
       ELSE /\ acc' = [acc EXCEPT ![u].pc = "mark"]
            /\ driverGot' = driverGot
    /\ UNCHANGED <<reqKey, reqTtlElapsed, sentKey, acceptedKey, socketUser, loc,
                   send, timer, riderGot, sentAtAccept, rejected, riderLive>>
    /\ UNCHANGED <<requested, cancelled>>
    /\ UNCHANGED <<posVars, syncVars, rankVars, ctlVars>>

\* Lines 350-351: the marker is written with the caller's id, whatever it
\* held.
AcceptMark(u) ==
    /\ acc[u].pc = "mark"
    /\ acceptedKey' = [acceptedKey EXCEPT ![acc[u].req] = u]
    /\ sentAtAccept' = [sentAtAccept EXCEPT ![acc[u].req] = sentKey[acc[u].req]]
    /\ acc' = [acc EXCEPT ![u].pc = "notify"]
    /\ UNCHANGED <<reqKey, reqTtlElapsed, sentKey, socketUser, loc,
                   send, timer, riderGot, driverGot, rejected, riderLive>>
    /\ UNCHANGED <<requested, cancelled>>
    /\ UNCHANGED <<posVars, syncVars, rankVars, ctlVars>>

\* The caller answered ride:accept:success only if the rider was told.
AcceptAnswerNeedsRider(riderKey) == IF riderKey # NoSocket THEN "success" ELSE "failed"

\* Lines 367-371: the caller is answered ride:accept:success whether or
\* not the rider had a socket:user key at line 354.
AcceptAnswer(riderKey) == "success"

\* Lines 353-371: ride:accepted goes to the rider if it has a socket:user
\* key, and ride:accept:success to the caller.
AcceptNotify(u) ==
    /\ acc[u].pc = "notify"
    /\ riderGot' = IF SocketUserKey(Rider) # NoSocket
                   THEN [riderGot EXCEPT ![acc[u].req].accepted = @ + 1]
                   ELSE riderGot
    /\ driverGot' = IF AcceptAnswer(SocketUserKey(Rider)) = "success"
                    THEN [driverGot EXCEPT ![acc[u].req].success = @ + 1]
                    ELSE [driverGot EXCEPT ![acc[u].req].failed = @ + 1]
    /\ acc' = [acc EXCEPT ![u].pc = "cleanup",
                          ![u].answer = AcceptAnswer(SocketUserKey(Rider))]
    /\ UNCHANGED <<reqKey, reqTtlElapsed, sentKey, acceptedKey, socketUser, loc,
                   send, timer, sentAtAccept, rejected, riderLive>>
    /\ UNCHANGED <<requested, cancelled>>
    /\ UNCHANGED <<posVars, syncVars, rankVars, ctlVars>>

\* Lines 374-386: the sockets ride:request:cancelled is emitted to. Every
\* member of the sent set that differs from the caller's user id is
\* looked up under socket:user:<member>.
CancelTargets(u, r) ==
    {SocketUserKey(o) : o \in {x \in sentKey[r] : x # u /\ SocketUserKey(x) # NoSocket}}

\* Lines 373-392: the other recipients are looked up and told, then the
\* request and its sent set are deleted.
AcceptCleanup(u) ==
    /\ acc[u].pc = "cleanup"
    /\ cancelled' = [cancelled EXCEPT ![acc[u].req] = @ \cup CancelTargets(u, acc[u].req)]
    /\ reqKey' = [reqKey EXCEPT ![acc[u].req] = FALSE]
    /\ sentKey' = [sentKey EXCEPT ![acc[u].req] = {}]
    /\ acc' = [acc EXCEPT ![u].pc = "idle"]
    /\ UNCHANGED <<reqTtlElapsed, acceptedKey, socketUser, loc,
                   send, timer, riderGot, driverGot, sentAtAccept, rejected, riderLive>>
    /\ UNCHANGED requested
    /\ UNCHANGED <<posVars, syncVars, rankVars, ctlVars>>

\* Lines 393-396: a store call of handleRideAccept throws (the get of
\* line 332, 343, 354 or 377, the setex of line 351, the smembers of line
\* 374, the del of line 389 or 390). The catch block logs, emits "error"
\* to the caller, and the handler ends: what it had written stays, what it
\* had not yet done is not done, and nothing is tried again.
AcceptStoreError(u, r) ==
    /\ \/ /\ acc[u].pc = "idle"
          /\ send[r].pc # "idle"
          /\ acc[u].calls < MaxAcceptCalls
          /\ acc' = [acc EXCEPT ![u] = [pc |-> "idle", req |-> r, calls |-> @.calls + 1,
                                        late |-> reqTtlElapsed[r], answer |-> "error"]]
       \/ /\ acc[u].pc \in {"check", "mark", "notify", "cleanup"}
          /\ acc[u].req = r
          /\ acc' = [acc EXCEPT ![u].pc = "idle", ![u].answer = "error"]
    /\ UNCHANGED <<reqKey, reqTtlElapsed, sentKey, acceptedKey, socketUser, loc,
                   send, timer, riderGot, driverGot, sentAtAccept, rejected, riderLive>>
    /\ UNCHANGED <<requested, cancelled>>
    /\ UNCHANGED <<posVars, syncVars, rankVars, ctlVars>>

\* ---------------------------------------------------- handleRideReject
\* Lines 402-408: the caller's user id is removed from the sent set (which
\* holds driver ids) and the caller is answered ride:reject:success.
\* The request dropped when a reject leaves the sent set empty.
RequestDroppedWhenNoneLeft(stored, left) == stored /\ left # {}

\* Lines 402-408: handleRideReject writes the sent set only; the request
\* key stays as it is, whatever is left of the sent set.
RequestAfterReject(stored, left) == stored

HandleRideReject(u, r) ==
    /\ send[r].pc # "idle"
    /\ u \notin rejected[r]
    /\ sentKey' = [sentKey EXCEPT ![r] = @ \ {u}]
    /\ rejected' = [rejected EXCEPT ![r] = @ \cup {u}]
    /\ reqKey' = [reqKey EXCEPT ![r] = RequestAfterReject(@, sentKey'[r])]
    /\ UNCHANGED <<reqTtlElapsed, acceptedKey, socketUser, loc,
                   send, timer, acc, riderGot, driverGot, sentAtAccept, riderLive>>
    /\ UNCHANGED <<requested, cancelled>>
    /\ UNCHANGED <<posVars, syncVars, rankVars, ctlVars>>

\* ------------------------------------------------------------ SpecOffer
NextOffer ==
    \/ RegisterUser(RiderSock, NoCell)
    \/ HandleDisconnect(RiderSock)
    \/ \E r \in Requests, ids \in SUBSET DriverIds, withRoute \in BOOLEAN :
          SendRideRequestRejected(r, ids, withRoute)
    \/ \E r \in Requests, ids \in SUBSET DriverIds : SendStore(r, ids)
    \/ \E r \in Requests, d \in DriverIds : SendToDriver(r, d)
    \/ \E r \in Requests : SendSetTimer(r)
    \/ \E r \in Requests : RequestTtl(r)
    \/ \E r \in Requests : SentTtl(r)
    \/ \E r \in Requests : AcceptedTtl(r)
    \/ \E r \in Requests : TimerFire(r)
    \/ \E r \in Requests : ExpireNotify(r)
    \/ \E r \in Requests : ExpireCleanup(r)
    \/ \E u \in Users, r \in Requests : AcceptLoad(u, r)
    \/ \E u \in Users : AcceptCheck(u)
    \/ \E u \in Users : AcceptMark(u)
    \/ \E u \in Users : AcceptNotify(u)
    \/ \E u \in Users : AcceptCleanup(u)
    \/ \E u \in Users, r \in Requests : HandleRideReject(u, r)

\* ---------------------------------------------------------- SpecChannel
\* A driver connecting, registering, moving and disconnecting while an
\* offer is fanned out. The handlers of one driver touch the keys of that
\* driver only, so the connections of one driver are exercised; the other
\* drivers never connect and have no position record.
ActiveSocks == {Sock(<<"u", 1>>, c) : c \in 1..NumChannels}

NextChannel ==
    \/ \E s \in ActiveSocks, cell \in {NoCell, HomeCell} : RegisterUser(s, cell)
    \/ \E s \in ActiveSocks : RegisterStore(s)
    \/ \E s \in ActiveSocks : HandleDisconnect(s)
    \/ \E s \in ActiveSocks : DisconnectStore(s)
    \/ \E s \in ActiveSocks : UpdateLoad(s, 1, HomeCell)
    \/ \E s \in ActiveSocks : UpdateStore(s, 1)
    \/ \E d \in DriverIds : LocTtl(d)
    \/ \E r \in Requests, ids \in SUBSET DriverIds : SendStore(r, ids)
    \/ \E r \in Requests, d \in DriverIds : SendToDriver(r, d)
    \/ \E r \in Requests : SendSetTimer(r)

\* ------------------------------------------------------ offer claims
\* No ride:accept call was made for request r.
NoAcceptCalls(r) == \A u \in Users : acc[u].calls = 0

\* C1: for any offer, over every interleaving of concurrent ride:accept
\* calls from different drivers, at most one call is answered with
\* ride:accept:success.
C1_AtMostOneAcceptSuccess ==
    \A r \in Requests : driverGot[r].success <= 1

\* C2: once the accepted marker of an offer names a driver, no step makes
\* it name a different driver.
C2_WinnerImmutable ==
    [][\A r \in Requests :
          acceptedKey[r] # NoUser => acceptedKey'[r] \in {acceptedKey[r], NoUser}]_vars

\* C3: if an offer was fanned out to at least one driver, no driver called
\* ride:accept and the rider has held a registered channel since the offer
\* was stored, then once the expiry timer has run the rider has received
\* exactly one ride:request:expired.
C3_ExpiredExactlyOnce ==
    \A r \in Requests :
        (timer[r] = "done" /\ send[r].sent # {} /\ NoAcceptCalls(r) /\ riderLive[r])
            => riderGot[r].expired = 1

\* C4: the rider never receives both ride:accepted and
\* ride:request:expired for the same offer.
C4_OneTerminalEvent ==
    \A r \in Requests : ~(riderGot[r].accepted >= 1 /\ riderGot[r].expired >= 1)

\* C5: a ride:accept call that loads the offer after its 15 s TTL has
\* elapsed ends at the load, answered ride:accept:failed; it never goes on
\* to check or write the accepted marker.
C5_NoAcceptAfterTtl ==
    \A u \in Users : acc[u].late => (acc[u].pc = "idle" /\ acc[u].answer = "failed")

\* C5 witness: a call loaded an offer whose TTL had elapsed and was
\* answered ride:accept:failed.
C5_Witness ==
    \E u \in Users : acc[u].late /\ acc[u].calls >= 1 /\ acc[u].answer = "failed"
                     /\ driverGot[acc[u].req].failed >= 1

\* C6: whenever a winner is recorded for an offer, the winner's driver id
\* was in the offer's sent set at the moment it was recorded.
C6_WinnerIsRecipient ==
    \A r \in Requests :
        acceptedKey[r] # NoUser => DriverOf(acceptedKey[r]) \in sentAtAccept[r]

\* The step in which the ride:accept call of u, answered with success,
\* has told the other recipients and deletes the request.
CleanupStep(u) == acc[u].pc = "cleanup" /\ acc'[u].pc = "idle"

\* C16: when a successful ride:accept call has gone through the sent set,
\* every driver in that set other than the caller whose user has a
\* socket:user key has been sent ride:request:cancelled on the socket that
\* key names.
C16_OthersCancelled ==
    [][\A u \in Users :
          CleanupStep(u) =>
              \A d \in sentKey[acc[u].req] :
                  (d # DriverOf(u) /\ socketUser[UserOf(d)] # NoSocket)
                      => socketUser[UserOf(d)] \in cancelled'[acc[u].req]]_vars

\* C17: a driver whose ride:accept call was answered with success has no
\* position record with isAvailable true.
C17_WinnerUnavailable ==
    \A u \in Users :
        acc[u].answer = "success" =>
            ~(loc[DriverOf(u)].present /\ loc[DriverOf(u)].isAvailable)

\* ------------------------------------------------------------- SpecSync
\* The invocations of syncLocations: the cron callback of lines 38-40 and
\* triggerManualSync of lines 243-246.
Triggers == {"cron", "manual"}

\* The locals of one syncLocations invocation.
\*   keys    activeKeys (line 77)        todo    ids the gather loop has left
\*   data    keys of locationData        waiting updates not yet settled
\*   failed  failedUpdates               mtodo   ids the merge loop has left
\*   madd    ids the merge pipeline adds to the active set
\*   mrem    ids the merge pipeline removes from the processing set
\*   via     "try" inside the try block, "catch" inside the catch block
\*   applied the durable updates fulfilled, per id (its support is
\*           successfulUpdates)
IdleRun == [pc |-> "idle", keys |-> {}, todo |-> {}, data |-> {}, waiting |-> {},
            failed |-> {}, mtodo |-> {}, madd |-> {}, mrem |-> {}, via |-> "try",
            applied |-> [d \in SyncDrivers |-> 0]]

\* The record of a run in which some durable updates were fulfilled and
\* others rejected, kept while the run after it has had no failure.
\*   prevFailed  the ids whose durable update was rejected
\*   touched     ids enqueued since the run after it read the active set
NoLog == [prevFailed |-> {}, touched |-> {}]

InitSync ==
    /\ active = {}
    /\ processing = {}
    /\ posLive = [d \in SyncDrivers |-> FALSE]
    /\ isRunning = FALSE
    /\ run = [t \in Triggers |-> IdleRun]
    /\ pending = {}
    /\ fresh = {}
    /\ recovering = FALSE
    /\ lastRun = "none"
    /\ log = NoLog

\* The invocations past the guard of line 65.
InFlight == {t \in Triggers : run[t].pc \notin {"idle", "suppressed"}}

\* The invocations that have read the active set and not finished the
\* durable updates.
PastSnapshot == {t \in Triggers : run[t].pc \in {"move", "gather", "persist"}}

\* A position upsert followed by addToActiveSet, lines 222-228: the record
\* is (re)written and the id enters the active set.
AddToActiveSet(d) ==
    /\ posLive' = [posLive EXCEPT ![d] = TRUE]
    /\ active' = active \cup {d}
    /\ pending' = pending \cup {d}
    /\ fresh' = fresh \cup {d}
    /\ log' = IF log.prevFailed # {} /\ PastSnapshot # {}
              THEN [log EXCEPT !.touched = @ \cup {d}]
              ELSE log
    /\ UNCHANGED <<processing, isRunning, run, recovering, lastRun>>
    /\ UNCHANGED <<offerVars, posVars, rankVars, ctlVars>>

\* The 300 s TTL of driver:location:<id> elapses: the record is gone and
\* with it the update that was to be persisted.
PositionTtl(d) ==
    /\ posLive[d]
    /\ posLive' = [posLive EXCEPT ![d] = FALSE]
    /\ pending' = pending \ {d}
    /\ fresh' = fresh \ {d}
    /\ UNCHANGED <<active, processing, isRunning, run, recovering, lastRun, log>>
    /\ UNCHANGED <<offerVars, posVars, rankVars, ctlVars>>

\* The guard of line 65 left out.
SyncGuardOff == FALSE

\* Line 65: the overlap guard.
SyncGuard == isRunning

\* Lines 65-72: a trigger that finds a run in progress returns; otherwise
\* the flag is set and the run goes on to read the active set.
Trigger(t) ==
    /\ run[t].pc = "idle"
    /\ IF SyncGuard
       THEN /\ run' = [run EXCEPT ![t].pc = "suppressed"]
            /\ UNCHANGED <<isRunning, lastRun, log>>
       ELSE /\ isRunning' = TRUE
            /\ run' = [run EXCEPT ![t].pc = "snapshot"]
            /\ lastRun' = "none"
            /\ UNCHANGED log
    /\ UNCHANGED <<active, processing, posLive, pending, fresh, recovering>>
    /\ UNCHANGED <<offerVars, posVars, rankVars, ctlVars>>

\* Lines 66-67: the suppressed invocation logs and returns.
SuppressedReturn(t) ==
    /\ run[t].pc = "suppressed"
    /\ run' = [run EXCEPT ![t].pc = "idle"]
    /\ UNCHANGED <<active, processing, posLive, isRunning, pending, fresh,
                   recovering, lastRun, log>>
    /\ UNCHANGED <<offerVars, posVars, rankVars, ctlVars>>

\* A run ending with the finally block of lines 176-178 left out.
FinishFlagKept(t, how) ==
    /\ run' = [run EXCEPT ![t] = IdleRun]
    /\ isRunning' = isRunning
    /\ lastRun' = how

\* How a run ends: the finally block of lines 176-178 (and line 81).
Finish(t, how) ==
    /\ run' = [run EXCEPT ![t] = IdleRun]
    /\ isRunning' = FALSE
    /\ lastRun' = how

\* Lines 77-83: the active set is read; an empty set ends the run.
Snapshot(t) ==
    /\ run[t].pc = "snapshot"
    /\ IF active = {}
       THEN Finish(t, "empty")
       ELSE /\ run' = [run EXCEPT ![t].pc = "move", ![t].keys = active]
            /\ UNCHANGED <<isRunning, lastRun>>
    /\ log' = IF active = {} THEN NoLog ELSE [log EXCEPT !.touched = {}]
    /\ UNCHANGED <<active, processing, posLive, pending, fresh, recovering>>
    /\ UNCHANGED <<offerVars, posVars, rankVars, ctlVars>>

\* Lines 87-93: the pipeline adds every read id to the processing set and
\* removes it from the active set.
Move(t) ==
    /\ run[t].pc = "move"
    /\ processing' = processing \cup run[t].keys
    /\ active' = active \ run[t].keys
    /\ run' = [run EXCEPT ![t].pc = "gather", ![t].todo = run[t].keys, ![t].keys = {}]
    /\ recovering' = FALSE
    /\ UNCHANGED <<posLive, isRunning, pending, fresh, lastRun, log>>
    /\ UNCHANGED <<offerVars, posVars, rankVars, ctlVars>>

\* Lines 100-112, one iteration: the position record of d is read and kept
\* if it exists. After the last one the updates of lines 121-145 are
\* issued.
Gather(t, d) ==
    /\ run[t].pc = "gather"
    /\ d \in run[t].todo
    /\ LET data == IF posLive[d] THEN run[t].data \cup {d} ELSE run[t].data
           todo == run[t].todo \ {d}
       IN  run' = [run EXCEPT ![t].todo = todo,
                              ![t].data = data,
                              ![t].pc = IF todo = {} THEN "persist" ELSE "gather",
                              ![t].waiting = IF todo = {} THEN data ELSE {}]
    /\ fresh' = IF posLive[d] THEN fresh \ {d} ELSE fresh
    /\ UNCHANGED <<active, processing, posLive, isRunning, pending, recovering, lastRun, log>>
    /\ UNCHANGED <<offerVars, posVars, rankVars, ctlVars>>

\* Lines 122-142: the update of d settles, fulfilled (ok) or rejected.
PersistResult(t, d, ok) ==
    /\ run[t].pc = "persist"
    /\ d \in run[t].waiting
    /\ run' = [run EXCEPT ![t].waiting = @ \ {d},
                          ![t].failed = IF ok THEN @ ELSE @ \cup {d},
                          ![t].applied[d] = IF ok THEN @ + 1 ELSE @]
    /\ pending' = IF ok /\ d \notin fresh THEN pending \ {d} ELSE pending
    /\ log' = IF ok THEN log ELSE NoLog
    /\ UNCHANGED <<active, processing, posLive, isRunning, fresh, recovering, lastRun>>
    /\ UNCHANGED <<offerVars, posVars, rankVars, ctlVars>>

\* The del of line 155 left out.
ProcessingKept == processing

\* Line 155: what redis.del leaves of the processing set.
FlushedProcessing == {}

\* Lines 153-156: no update failed, the processing set is deleted.
Flush(t) ==
    /\ run[t].pc = "persist"
    /\ run[t].waiting = {}
    /\ run[t].failed = {}
    /\ processing' = FlushedProcessing
    /\ Finish(t, "flushed")
    /\ log' = NoLog
    /\ UNCHANGED <<active, posLive, pending, fresh, recovering>>
    /\ UNCHANGED <<offerVars, posVars, rankVars, ctlVars>>

\* Lines 157-159 and 187: some update failed, the merge starts with the
\* failed ids.
MergeFailed(t) ==
    /\ run[t].pc = "persist"
    /\ run[t].waiting = {}
    /\ run[t].failed # {}
    /\ run' = [run EXCEPT ![t].pc = "merge", ![t].mtodo = run[t].failed]
    /\ UNCHANGED <<active, processing, posLive, isRunning, pending, fresh, recovering, lastRun, log>>
    /\ UNCHANGED <<offerVars, posVars, rankVars, ctlVars>>

\* The sismember of line 197 answering yes for every id.
ExistsInActiveAlways(d) == TRUE

\* Line 197: redis.sismember of the active set.
ExistsInActive(d) == d \in active

\* Lines 195-208, one iteration: sismember decides what the pipeline will
\* do with d.
MergeCheck(t, d) ==
    /\ run[t].pc = "merge"
    /\ d \in run[t].mtodo
    /\ run' = [run EXCEPT ![t].mtodo = @ \ {d},
                          ![t].madd = IF ExistsInActive(d) THEN @ ELSE @ \cup {d},
                          ![t].mrem = @ \cup {d}]
    /\ UNCHANGED <<active, processing, posLive, isRunning, pending, fresh, recovering, lastRun, log>>
    /\ UNCHANGED <<offerVars, posVars, rankVars, ctlVars>>

\* Line 210: the merge pipeline runs, and the run ends.
MergeExec(t) ==
    /\ run[t].pc = "merge"
    /\ run[t].mtodo = {}
    /\ active' = active \cup run[t].madd
    /\ processing' = processing \ run[t].mrem
    /\ Finish(t, IF run[t].via = "try" THEN "merged" ELSE "recovered")
    /\ log' = IF run[t].via = "try" /\ (\E d \in SyncDrivers : run[t].applied[d] > 0)
              THEN [prevFailed |-> run[t].failed, touched |-> {}]
              ELSE NoLog
    /\ UNCHANGED <<posLive, pending, fresh, recovering>>
    /\ UNCHANGED <<offerVars, posVars, rankVars, ctlVars>>

\* A store call of the try block throws (lines 77, 93, 102, 155, 197,
\* 210): the catch block of lines 166-171 starts a merge of the whole
\* processing set.
StoreErrorInTry(t) ==
    /\ \/ run[t].pc \in {"snapshot", "move", "gather", "merge"}
       \/ run[t].pc = "persist" /\ run[t].waiting = {} /\ run[t].failed = {}
    /\ run[t].via = "try"
    /\ run' = [run EXCEPT ![t] = [IdleRun EXCEPT !.pc = "catch", !.via = "catch"]]
    /\ log' = NoLog
    /\ UNCHANGED <<active, processing, posLive, isRunning, pending, fresh, recovering, lastRun>>
    /\ UNCHANGED <<offerVars, posVars, rankVars, ctlVars>>

\* Lines 187-191 in the catch block: the processing set is read.
CatchRead(t) ==
    /\ run[t].pc = "catch"
    /\ IF processing = {}
       THEN Finish(t, "recovered")
       ELSE /\ run' = [run EXCEPT ![t].pc = "merge", ![t].mtodo = processing]
            /\ UNCHANGED <<isRunning, lastRun>>
    /\ log' = NoLog
    /\ UNCHANGED <<active, processing, posLive, pending, fresh, recovering>>
    /\ UNCHANGED <<offerVars, posVars, rankVars, ctlVars>>

\* A store call of the catch block's merge throws: lines 173-178, the
\* error is logged and the run ends.
StoreErrorInCatch(t) ==
    /\ run[t].pc \in {"catch", "merge"}
    /\ run[t].via = "catch"
    /\ Finish(t, "failed")
    /\ log' = NoLog
    /\ UNCHANGED <<active, processing, posLive, pending, fresh, recovering>>
    /\ UNCHANGED <<offerVars, posVars, rankVars, ctlVars>>

\* The process stops while a run holds ids in the processing set, and is
\* started again (index.ts lines 66-75): the store keeps its sets, the
\* service object is new.
CrashRestart ==
    /\ \E t \in Triggers : run[t].pc \in {"gather", "persist", "merge", "catch"}
    /\ run' = [t \in Triggers |-> IdleRun]
    /\ isRunning' = FALSE
    /\ recovering' = TRUE
    /\ lastRun' = "none"
    /\ log' = NoLog
    /\ UNCHANGED <<active, processing, posLive, pending, fresh>>
    /\ UNCHANGED <<offerVars, posVars, rankVars, ctlVars>>

NextSync ==
    \/ \E d \in SyncDrivers : AddToActiveSet(d)
    \/ \E d \in SyncDrivers : PositionTtl(d)
    \/ \E t \in Triggers : Trigger(t)
    \/ \E t \in Triggers : SuppressedReturn(t)
    \/ \E t \in Triggers : Snapshot(t)
    \/ \E t \in Triggers : Move(t)
    \/ \E t \in Triggers, d \in SyncDrivers : Gather(t, d)
    \/ \E t \in Triggers, d \in SyncDrivers, ok \in BOOLEAN : PersistResult(t, d, ok)
    \/ \E t \in Triggers : Flush(t)
    \/ \E t \in Triggers : MergeFailed(t)
    \/ \E t \in Triggers, d \in SyncDrivers : MergeCheck(t, d)
    \/ \E t \in Triggers : MergeExec(t)
    \/ \E t \in Triggers : StoreErrorInTry(t)
    \/ \E t \in Triggers : CatchRead(t)
    \/ \E t \in Triggers : StoreErrorInCatch(t)
    \/ CrashRestart

\* The sync worker, the offer protocol at rest.
InitSyncSpec == InitOfferIdle /\ InitPos /\ InitSync /\ InitRank

SpecSync == InitSyncSpec /\ [][NextSync]_vars

\* ------------------------------------------------------- start and stop
\* Calls of start followed in one run of the model.
MaxStarts == 2

\* The guard of line 33 left out.
StartGuardOff == FALSE

\* Line 33: a job is already scheduled.
StartGuard == cronJob

\* start (lines 32-43): with a job scheduled it warns and returns;
\* otherwise cron.schedule makes a job and the handle is kept. `jobs`
\* counts the scheduled jobs that have not been stopped, `started` the
\* calls of start since the last call of stop.
Start ==
    /\ started < MaxStarts
    /\ jobs < MaxStarts
    /\ started' = started + 1
    /\ IF StartGuard
       THEN UNCHANGED <<cronJob, jobs>>
       ELSE /\ cronJob' = TRUE
            /\ jobs' = jobs + 1
    /\ UNCHANGED <<offerVars, posVars, syncVars, rankVars, httpGot, probe, statVars, ttlVars>>

\* stop (lines 48-54): the job held is stopped and the handle set to null.
Stop ==
    /\ started' = 0
    /\ IF cronJob
       THEN /\ cronJob' = FALSE
            /\ jobs' = jobs - 1
       ELSE UNCHANGED <<cronJob, jobs>>
    /\ UNCHANGED <<offerVars, posVars, syncVars, rankVars, httpGot, probe, statVars, ttlVars>>

\* Lines 38-40: a scheduled job fires and calls syncLocations.
CronTick ==
    /\ jobs > 0
    /\ Trigger("cron")

\* triggerManualSync (lines 243-246): logs and calls syncLocations.
TriggerManualSync ==
    /\ run["manual"].pc = "idle"
    /\ Trigger("manual")

\* getStatus (lines 233-238).
getStatus == [isRunning |-> isRunning, cronActive |-> cronJob]

\* ------------------------------------------------------------- SpecCron
\* The sync worker with its schedule: runs are started by the scheduled
\* job or by hand.
NextCron ==
    \/ Start
    \/ Stop
    \/ CronTick
    \/ TriggerManualSync
    \/ \E d \in SyncDrivers : AddToActiveSet(d)
    \/ \E d \in SyncDrivers : PositionTtl(d)
    \/ \E t \in Triggers : SuppressedReturn(t)
    \/ \E t \in Triggers : Snapshot(t)
    \/ \E t \in Triggers : Move(t)
    \/ \E t \in Triggers, d \in SyncDrivers : Gather(t, d)
    \/ \E t \in Triggers, d \in SyncDrivers, ok \in BOOLEAN : PersistResult(t, d, ok)
    \/ \E t \in Triggers : Flush(t)
    \/ \E t \in Triggers : MergeFailed(t)
    \/ \E t \in Triggers, d \in SyncDrivers : MergeCheck(t, d)
    \/ \E t \in Triggers : MergeExec(t)
    \/ \E t \in Triggers : StoreErrorInTry(t)
    \/ \E t \in Triggers : CatchRead(t)
    \/ \E t \in Triggers : StoreErrorInCatch(t)

InitCronSpec == InitOfferIdle /\ InitPos /\ InitSync /\ InitRank

SpecCron == InitCronSpec /\ [][NextCron]_vars

\* C40: getStatus reports isRunning true exactly while a sync run is in
\* flight, and cronActive true exactly when start has been called with no
\* later call of stop; a call of start while a job is scheduled schedules
\* no second job.
C40_StatusTellsRunAndCadence ==
    /\ getStatus.isRunning <=> (InFlight # {})
    /\ getStatus.cronActive <=> (started > 0)
    /\ jobs <= 1

\* C40 witness: start was called twice with no stop between, one job is
\* scheduled, and a run started by the job is in flight.
C40_Witness ==
    /\ started = MaxStarts
    /\ jobs = 1
    /\ getStatus.cronActive
    /\ getStatus.isRunning
    /\ "cron" \in InFlight

\* ------------------------------------------------------- sync claims
\* C7: every driver id that was enqueued in the active set, whose position
\* record has not expired and that was not durably persisted since, is in
\* the active set or in the processing set.
C7_NoSilentLoss == pending \subseteq (active \cup processing)

\* C8: after a restart that follows an interrupted run, the first snapshot
\* that moves ids holds every id the interrupted run left in the
\* processing set: those ids were merged into the active set first.
C8_RestartMergesProcessing ==
    \A t \in Triggers :
        (recovering /\ run[t].pc = "move") => processing \subseteq run[t].keys

\* C9: when a run has ended by flushing (no update failed) or by merging
\* the failed ids back, the processing set is empty.
C9_ProcessingEmptyAfterRun ==
    lastRun \in {"flushed", "merged"} => processing = {}

\* A step in which invocation t is turned away at the guard, or returns
\* after being turned away.
SuppressedStep(t) ==
    \/ run[t].pc = "idle" /\ run'[t].pc = "suppressed"
    \/ run[t].pc = "suppressed" /\ run'[t].pc = "idle"

\* C10: at most one syncLocations invocation is past the guard at any
\* time, and the step of an invocation that is turned away at the guard
\* leaves the active and the processing set as they were.
C10_SingleRunInFlight ==
    /\ [](Cardinality(InFlight) <= 1)
    /\ [][\A t \in Triggers :
             SuppressedStep(t) => UNCHANGED <<active, processing>>]_vars

\* C10 witness: one invocation is turned away while the other is in the
\* middle of a run that holds ids.
C10_Witness ==
    \E t1 \in Triggers, t2 \in Triggers :
        /\ run[t1].pc = "suppressed"
        /\ run[t2].pc \in {"move", "gather", "persist", "merge"}
        /\ isRunning

\* The step in which invocation t ends a run in which no update failed.
FlushStep(t) == run[t].pc = "persist" /\ run'[t].pc = "idle" /\ lastRun' = "flushed"

\* The step in which invocation t moves the ids it read to the processing
\* set.
MoveStep(t) == run[t].pc = "move" /\ run'[t].pc = "gather"

C23_AcceptWithoutRider ==
    [][\A u \in Users :
          LET r == acc[u].req IN
          /\ (acc[u].pc = "check" /\ acc'[u].pc # "check" /\ acceptedKey[r] = NoUser)
                => acc'[u].pc = "mark"
          /\ (acc[u].pc = "mark" /\ acc'[u].pc # "mark")
                => acceptedKey'[r] = u
          /\ (acc[u].pc = "notify" /\ acc'[u].pc # "notify"
                  /\ SocketUserKey(Rider) = NoSocket)
                => /\ acc'[u].answer = "success"
                   /\ driverGot'[r].success = driverGot[r].success + 1
                   /\ riderGot' = riderGot
                   /\ acceptedKey' = acceptedKey
          /\ CleanupStep(u) => acceptedKey' = acceptedKey]_vars

\* C23 witness: a driver was answered ride:accept:success and is the
\* recorded winner of an offer whose rider was told nothing and has no
\* socket:user key.
C23_Witness ==
    \E r \in Requests, u \in Users :
        /\ acc[u].answer = "success" /\ acc[u].req = r /\ acc[u].pc = "idle"
        /\ acceptedKey[r] = u
        /\ riderGot[r] = NoEvents
        /\ SocketUserKey(Rider) = NoSocket

\* The step in which a ride:reject of user u for request r is handled.
RejectStep(u, r) == u \notin rejected[r] /\ u \in rejected'[r]

\* C24: handling a ride:reject leaves the request key, its TTL, the
\* accepted marker, the expiry timer and the accept handlers as they
\* were, whatever is left of the sent set.
C24_RejectLeavesOffer ==
    [][\A u \in Users, r \in Requests :
          RejectStep(u, r)
             => /\ reqKey' = reqKey
                /\ reqTtlElapsed' = reqTtlElapsed
                /\ acceptedKey' = acceptedKey
                /\ timer' = timer
                /\ acc' = acc
                /\ riderGot' = riderGot]_vars

\* C24 witness: every driver was sent the request and every one of them
\* has rejected, and the request is still stored with its timer pending.
C24_Witness ==
    \E r \in Requests :
        /\ rejected[r] = Users
        /\ send[r].sent = DriverIds
        /\ send[r].pc = "done"
        /\ reqKey[r]
        /\ timer[r] = "armed"

\* C25: a call sendRideRequest turns away stores no request, emits no
\* ride:request and sets no timer; and no offer is ever made for an empty
\* driverIds list.
C25_EmptyDriverIdsRejected ==
    /\ \A r \in Requests :
          httpGot[r] = "400"
             => /\ ~reqKey[r] /\ sentKey[r] = {}
                /\ requested[r] = {}
                /\ timer[r] = "unset"
                /\ send[r] = IdleSend
    /\ \A r \in Requests :
          send[r].pc # "idle" => send[r].todo \cup send[r].sent \cup send[r].failed # {}

\* C25 witness: a call was answered 400.
C25_Witness == \E r \in Requests : httpGot[r] = "400"

\* C26: when sendRideRequestToDrivers has gone through its list and
\* every driver was reported failed, the rider is sent
\* ride:request:failed.
C26_RiderToldFailed ==
    [][\A r \in Requests :
          (send[r].pc = "loop" /\ send'[r].pc = "done"
              /\ send[r].sent = {} /\ send[r].failed # {})
             => riderGot'[r].failed = riderGot[r].failed + 1]_vars

\* C29: while no sync run is at its merge (reading for it or carrying it
\* out), no driver id is in both the active set and the processing set.
C29_ActiveProcessingDisjoint ==
    (\A t \in Triggers : run[t].pc \notin {"catch", "merge"})
        => active \cap processing = {}

\* ---------------------------------------------------- dispatch claims
\* The step in which sendRideRequestToDrivers deals with driver d.
DispatchStep(r, d) ==
    send[r].pc = "loop" /\ d \in send[r].todo /\ d \notin send'[r].todo

\* C13: when sendRideRequestToDrivers comes to a driver whose position
\* record is absent, it emits no ride:request, leaves the driver out of
\* the sent set and reports the driver as failed.
C13_AbsentDriverSkipped ==
    [][\A r \in Requests, d \in DriverIds :
          (DispatchStep(r, d) /\ ~loc[d].present) =>
              /\ requested'[r] = requested[r]
              /\ d \notin sentKey'[r]
              /\ d \in send'[r].failed]_vars

\* C13 witness: a driver that is still in a cell set while its position
\* record has expired has been reported failed, and another driver was
\* sent the request.
C13_Witness ==
    \E r \in Requests, d \in DriverIds :
        /\ d \in send[r].failed
        /\ ~loc[d].present
        /\ d \in h3set[HomeCell]
        /\ send[r].sent # {}
        /\ requested[r] # {}

\* The step in which the disconnect of connection s is carried out while
\* the registry names another connection of the same user that is open:
\* the user registered there after it had registered on s.
StaleDisconnectStep(s) ==
    /\ chan[s] = "closing" /\ chan'[s] = "closed"
    /\ s \in everReg
    /\ socketUser[OwnerOf(s)] \notin {NoSocket, s}
    /\ chan[socketUser[OwnerOf(s)]] = "open"

\* C14: the disconnect of a connection the user has since replaced by
\* registering on a new one leaves socket:user and connectedUsers naming
\* the new connection, and leaves the new socket id in the position
\* record if it was there.
C14_LastRegistrationWins ==
    [][\A s \in DriverSocks :
          StaleDisconnectStep(s) =>
              LET u == OwnerOf(s)
                  d == DriverOf(u)
              IN  /\ socketUser'[u] = socketUser[u]
                  /\ connectedUsers'[u] = connectedUsers[u]
                  /\ (loc[d].present /\ loc[d].socketId = socketUser[u])
                        => loc'[d].socketId = socketUser[u]]_vars

\* Every connection of u is closed, its disconnect handled, and u has not
\* registered again.
Disconnected(u) ==
    /\ \A c \in 1..NumChannels : chan[Sock(u, c)] = "closed"
    /\ socketUser[u] = NoSocket
    /\ connectedUsers[u] = NoSocket

\* The step in which the user:register of connection s, sent with
\* coordinates, ends.
RegisterStoreStep(s) == reg[s].pc = "store" /\ reg'[s].pc = "idle"

\* The step in which the disconnect of connection s is carried out.
DisconnectStoreStep(s) == chan[s] = "closing" /\ chan'[s] = "closed"

\* C15: the disconnect of a driver's connection keeps the position record
\* it found; a dispatch that comes to a driver whose connections are all
\* disconnected emits no ride:request and leaves the driver out of the
\* sent set; a registration with coordinates leaves the record with the
\* socket id of the new connection; and a dispatch that comes to a driver
\* with a dispatchable record emits ride:request to the record's socket id
\* and adds the driver to the sent set.
C15_ReconnectContinuity ==
    [][/\ \A s \in DriverSocks :
             /\ (DisconnectStoreStep(s) /\ disc[s].present)
                    => loc'[DriverOf(OwnerOf(s))].present
             /\ RegisterStoreStep(s)
                    => /\ loc'[DriverOf(OwnerOf(s))].present
                       /\ loc'[DriverOf(OwnerOf(s))].socketId = s
       /\ \A r \in Requests, d \in DriverIds :
             /\ (DispatchStep(r, d) /\ Disconnected(UserOf(d)))
                    => requested'[r] = requested[r] /\ d \notin sentKey'[r]
             /\ (DispatchStep(r, d) /\ Dispatchable(loc[d]))
                    => loc[d].socketId \in requested'[r] /\ d \in sentKey'[r]]_vars

\* ------------------------------------------------------- cell claims
\* The step in which the location:update of connection s ends.
UpdateStoreStep(s, i) == upd[s][i].pc = "store" /\ upd'[s][i].pc = "idle"

\* A step in which a position upsert with coordinates in cell c1 is
\* completed for driver d: a user:register or a location:update of one of
\* its connections, or an HTTP location update.
UpsertTo(d, c1) ==
    \/ \E s \in DriverSocks :
          /\ DriverOf(OwnerOf(s)) = d
          /\ \/ RegisterStoreStep(s) /\ reg[s].cell = c1
             \/ \E i \in Slots : UpdateStoreStep(s, i) /\ upd[s][i].cell = c1
    \/ /\ reg' = reg /\ upd' = upd /\ chan' = chan
       /\ loc'[d] # loc[d]
       /\ loc'[d].present /\ loc'[d].h3Index = c1

\* C18: a completed upsert with coordinates in cell c1, for a driver
\* whose position record was in another cell c0, leaves the driver in the
\* set of c1 and out of the set of c0.
C18_UpsertMovesMembership ==
    [][\A d \in DriverIds, c0 \in Cells, c1 \in Cells :
          (/\ c0 # c1
           /\ loc[d].present /\ loc[d].h3Index = c0
           /\ UpsertTo(d, c1))
              => d \in h3set'[c1] /\ d \notin h3set'[c0]]_vars

\* C19: a member of a cell set has a position record, unless the set is
\* the next key to run out (record and set were given their TTLs
\* together and nothing was written to the set since).
C19_MembersHaveRecord ==
    \A c \in Cells : \A d \in h3set[c] :
        loc[d].present \/ (ttlQueue # <<>> /\ Head(ttlQueue) = c)

\* C20: a candidate passes the record stage only if its position record
\* is there, online and available when it is read; it is kept only if it
\* passed the record stage and its Driver document is verified and not
\* blocked when that is read; and only candidates kept are returned.
C20_ReturnedWereChecked ==
    [][\A d \in DriverIds :
          /\ (d \in query'.docq /\ d \notin query.docq)
                 => loc[d].present /\ loc[d].isOnline /\ loc[d].isAvailable
          /\ (d \in query'.valid /\ d \notin query.valid)
                 => /\ d \in query.docq
                    /\ driverDoc[d].isVerified /\ ~driverDoc[d].isBlocked
          /\ (query.pc = "examine" /\ query'.pc = "idle" /\ d \in query'.drivers)
                 => d \in query.valid]_vars

\* C20 witness: a candidate of the ring with an online, available record
\* was dropped, its driver being blocked, while another candidate was
\* kept.
C20_Witness ==
    /\ query.pc = "examine"
    /\ query.valid # {}
    /\ \E d \in query.ids \ (query.todo \cup query.docq \cup query.valid) :
          /\ RecordOk(loc[d])
          /\ driverDoc[d].isBlocked

\* The step in which the query gives its answer.
QueryAnswerStep == query.pc # "idle" /\ query'.pc = "idle"

\* C38: in the list a query returns every driver has at most one entry,
\* and exactly one if it is returned, also when the driver's id was read
\* from the sets of two cells of the ring.
C38_ReturnedAtMostOnce ==
    [][QueryAnswerStep =>
          \A d \in DriverIds :
              /\ query'.times[d] <= 1
              /\ d \in query'.drivers => query'.times[d] = 1]_vars

\* C38 witness: a driver whose id was read from the sets of two cells of
\* the ring was returned.
C38_Witness ==
    /\ query.pc = "idle"
    /\ \E d \in query.drivers : query.reads[d] >= 2

\* C21: the query starts at ring 0 and goes from ring k to ring k + 1 only
\* when ring k had no id or no candidate was kept there; an answer with
\* candidates is given at the ring where they were kept, with that ring as
\* searchRadius; the empty answer is given only when ring maxRadius has
\* been searched without a candidate kept, with searchRadius maxRadius.
C21_SmallestRingAnswers ==
    [][/\ (query.pc = "idle" /\ query'.pc # "idle") => query'.k = 0
       /\ (query.pc # "idle" /\ query'.pc # "idle" /\ query'.k # query.k)
             => /\ query'.k = query.k + 1
                /\ query'.k <= maxRadius
                /\ query.todo = {} /\ query.docq = {} /\ query.valid = {}
       /\ (QueryAnswerStep /\ query'.drivers # {})
             => /\ query'.drivers = query.valid
                /\ query'.searchRadius = query.k
                /\ query.k \in 0..maxRadius
       /\ (QueryAnswerStep /\ query'.drivers = {})
             => /\ query.k = maxRadius
                /\ query.todo = {} /\ query.docq = {} /\ query.valid = {}
                /\ query'.searchRadius = maxRadius]_vars

\* C21 witness: an answer with candidates was given at a ring beyond the
\* centre cell, the centre cell having had none.
C21_Witness ==
    /\ query.pc = "idle"
    /\ query.drivers # {}
    /\ query.searchRadius >= 1

\* C30: when the handler of a location:update ends after the handler of
\* a later location:update of the same connection has ended, the position
\* record and the cell sets are those of the later update.
C30_LaterUpdateWins ==
    [][\A s \in DriverSocks, i \in Slots :
          (UpdateStoreStep(s, i) /\ upd[s][i].later # NoCell)
             => LET d == DriverOf(OwnerOf(s))
                    c == upd[s][i].later
                IN  /\ loc'[d].present /\ loc'[d].h3Index = c
                    /\ d \in h3set'[c]
                    /\ \A x \in Cells \ {c} : d \notin h3set'[x]]_vars

\* The id under which the sync worker knows driver d (Driver._id).
SyncIdOf(d) == d[2]

\* C28: a completed position upsert of a driver, by user:register,
\* location:update or the HTTP endpoint, leaves the driver's id in the
\* active set.
C28_UpsertMarksActive ==
    [][\A d \in DriverIds, c \in Cells :
          UpsertTo(d, c) => SyncIdOf(d) \in active']_vars

\* ------------------------------------------------------ ranking claims
\* The step in which the candidates are sorted.
SortStep == rank.pc = "route" /\ rank'.pc = "sorted"

\* C22: when every candidate has an ETA, the sorted candidates are in
\* ascending order of ETA and, among candidates of equal ETA, in ascending
\* order of straight-line distance.
C22_OrderedByEtaThenDistance ==
    [][(SortStep /\ \A i \in DOMAIN rank.cands : Truthy(rank.cands[i].eta))
          => \A i, j \in DOMAIN rank'.drivers :
                i < j => \/ rank'.drivers[i].eta < rank'.drivers[j].eta
                         \/ /\ rank'.drivers[i].eta = rank'.drivers[j].eta
                            /\ rank'.drivers[i].distance <= rank'.drivers[j].distance]_vars

\* The step in which the routing request of candidate i is settled.
RouteStep(i) ==
    /\ i \in DOMAIN rank.cands
    /\ ~rank.cands[i].routed
    /\ rank'.cands[i].routed

\* C37: when the routing request of a candidate is settled the candidate
\* has an ETA: that of the route, or, the routing having failed (fetch
\* threw, the response was not ok, or it held no route), the fallback
\* round(straightLineKm / 30 * 60).
C37_RoutingFailureFallsBack ==
    [][\A i \in 1..MaxCandidates :
          RouteStep(i) =>
              rank'.cands[i].eta \in
                  {RouteEta(t) : t \in DurationSecs}
                      \cup {FallbackEta(rank.cands[i].distance)}]_vars

\* ------------------------------------------- the rings of the search
\* The ring search of getNearbyDriversByH3 for a query point P and one
\* driver D that passes every check of lines 463-483 and does not move.
\* Points lie on a line through the cells; lengths are counted in cell
\* edges. A cell covers CellSpan edges of the line, the longest diagonal
\* of a hexagon, so that a ring is as wide as a ring can be.
CellEdge == 1
CellSpan == 2

RingCells == 0..FarthestRing
Points == 0..(CellSpan * (FarthestRing + 1) - 1)
\* P lies in the first cell of the line.
QueryPoints == 0..(CellSpan - 1)

\* getCell of src/src/config/h3.ts: the cell a point lies in.
getCell(x) == x \div CellSpan

\* greatCircleDistance of line 486 between two points of the line.
straightLineDistance(x, y) == IF x >= y THEN x - y ELSE y - x

\* gridDisk(centerCell, k) of line 450 on the line of cells.
gridDiskCentreOnly(centerCell, k) == {centerCell}

gridDiskOnLine(centerCell, k) ==
    {c \in RingCells : straightLineDistance(c, centerCell) <= k}

CeilDiv(a, b) == (a + b - 1) \div b

\* The number of rings the bound allows for a driver d away.
RingBound(d) == CeilDiv(d, CellEdge) + 1

InitProbeInputs ==
    probe \in {[pc |-> "ring", p |-> p, q |-> q, k |-> 0, found |-> FALSE,
                searchRadius |-> 0] : p \in QueryPoints, q \in Points}

\* Lines 444-461 and 542-548: ring k holds the driver's cell, the driver
\* survives, and the query answers with searchRadius k.
ProbeFound ==
    /\ probe.pc = "ring"
    /\ getCell(probe.q) \in gridDiskOnLine(getCell(probe.p), probe.k)
    /\ probe' = [probe EXCEPT !.pc = "done", !.found = TRUE,
                              !.searchRadius = probe.k]
    /\ UNCHANGED <<offerVars, posVars, syncVars, rankVars, httpGot, extVars>>

\* Line 444: ring k holds no survivor and k < maxRadius, so k++.
ProbeNextRing ==
    /\ probe.pc = "ring"
    /\ getCell(probe.q) \notin gridDiskOnLine(getCell(probe.p), probe.k)
    /\ probe.k < maxRadius
    /\ probe' = [probe EXCEPT !.k = probe.k + 1]
    /\ UNCHANGED <<offerVars, posVars, syncVars, rankVars, httpGot, extVars>>

\* Lines 551-557: the loop ended at maxRadius with no survivor.
ProbeEmpty ==
    /\ probe.pc = "ring"
    /\ getCell(probe.q) \notin gridDiskOnLine(getCell(probe.p), probe.k)
    /\ probe.k = maxRadius
    /\ probe' = [probe EXCEPT !.pc = "done", !.found = FALSE,
                              !.searchRadius = maxRadius]
    /\ UNCHANGED <<offerVars, posVars, syncVars, rankVars, httpGot, extVars>>

ProbeAnswerStep == probe.pc = "ring" /\ probe'.pc = "done"

BodyFlags == {"true", "false", "undefined"}

\* Lines 261-262: a field that is given replaces the document's.
Given(old, flag) == IF flag = "undefined" THEN old ELSE flag = "true"

\* updateDriverStatus, part_006 lines 243-282, called by user u: a blocked
\* or unverified driver is turned away; the fields given are set, going
\* offline sets unavailable too, and the document is saved.
UpdateDriverStatus(u, isOnline, isAvailable) ==
    LET d == DriverOf(u)
        on == Given(driverDoc[d].isOnline, isOnline)
        av == IF isOnline = "false" THEN FALSE
              ELSE Given(driverDoc[d].isAvailable, isAvailable)
    IN
    /\ ~driverDoc[d].isBlocked
    /\ driverDoc[d].isVerified
    /\ driverDoc' = [driverDoc EXCEPT ![d].isOnline = on, ![d].isAvailable = av]
    /\ asked' = [asked EXCEPT ![d] = [isOnline |-> on, isAvailable |-> av]]
    /\ UNCHANGED offerVars
    /\ UNCHANGED <<chan, connectedUsers, reg, disc, upd, everReg, h3set, ttlQueue, query>>
    /\ UNCHANGED <<syncVars, rankVars, httpGot, probe, statusSync, ttlVars, cronVars>>

\* ------------------------- syncLocations, with the records it carries
\* Lines 65-83: the guard, the flag, the read of the active set; an empty
\* set ends the run with the flag cleared.
StatusSyncStart ==
    /\ statusSync.pc = "idle"
    /\ ~isRunning
    /\ IF active = {}
       THEN UNCHANGED <<isRunning, statusSync>>
       ELSE /\ isRunning' = TRUE
            /\ statusSync' = [statusSync EXCEPT
                                 !.pc = "move",
                                 !.activeKeys = {d \in StatusDrivers : SyncIdOf(d) \in active}]
    /\ UNCHANGED <<active, processing, posLive, run, pending, fresh, recovering, lastRun, log>>
    /\ UNCHANGED <<offerVars, posVars, rankVars, httpGot, probe, asked, ttlVars, cronVars>>

\* Lines 87-93: the ids read are moved to the processing set.
StatusSyncMove ==
    LET keys == {SyncIdOf(d) : d \in statusSync.activeKeys} IN
    /\ statusSync.pc = "move"
    /\ processing' = processing \cup keys
    /\ active' = active \ keys
    /\ statusSync' = [statusSync EXCEPT !.pc = "gather", !.todo = statusSync.activeKeys]
    /\ UNCHANGED <<posLive, isRunning, run, pending, fresh, recovering, lastRun, log>>
    /\ UNCHANGED <<offerVars, posVars, rankVars, httpGot, probe, asked, ttlVars, cronVars>>

\* Lines 100-112, one iteration: the position record of d is read and, if
\* there is one, kept in locationData. After the last one the updates of
\* lines 121-145 are issued.
StatusSyncGet(d) ==
    LET todo == statusSync.todo \ {d}
        data == [statusSync.locationData EXCEPT ![d] = loc[d]]
    IN
    /\ statusSync.pc = "gather"
    /\ d \in statusSync.todo
    /\ statusSync' = [statusSync EXCEPT
                         !.todo = todo,
                         !.locationData = data,
                         !.pc = IF todo = {} THEN "persist" ELSE "gather",
                         !.waiting = IF todo = {}
                                     THEN {x \in StatusDrivers : data[x].present}
                                     ELSE {}]
    /\ UNCHANGED <<offerVars, posVars, syncVars, rankVars, httpGot, probe, asked,
                   ttlVars, cronVars>>

\* Lines 122-142: findByIdAndUpdate of d settles. Fulfilled (ok), the
\* document has the isOnline and isAvailable of the record that was read;
\* rejected, the id is kept in failedUpdates.
StatusSyncUpdate(d, ok) ==
    /\ statusSync.pc = "persist"
    /\ d \in statusSync.waiting
    /\ statusSync' = [statusSync EXCEPT
                         !.waiting = @ \ {d},
                         !.failedUpdates = IF ok THEN @ ELSE @ \cup {d}]
    /\ driverDoc' = IF ok
                    THEN [driverDoc EXCEPT
                             ![d].isOnline = statusSync.locationData[d].isOnline,
                             ![d].isAvailable = statusSync.locationData[d].isAvailable]
                    ELSE driverDoc
    /\ UNCHANGED offerVars
    /\ UNCHANGED <<chan, connectedUsers, reg, disc, upd, everReg, h3set, ttlQueue, query>>
    /\ UNCHANGED <<syncVars, rankVars, httpGot, probe, asked, ttlVars, cronVars>>

\* Lines 153-178 and 185-211: with no failed update the processing set is
\* deleted; otherwise each failed id leaves the processing set and enters
\* the active set unless it is there. The flag is cleared.
StatusSyncEnd ==
    LET failed == {SyncIdOf(d) : d \in statusSync.failedUpdates} IN
    /\ statusSync.pc = "persist"
    /\ statusSync.waiting = {}
    /\ processing' = IF failed = {} THEN {} ELSE processing \ failed
    /\ active' = active \cup failed
    /\ isRunning' = FALSE
    /\ statusSync' = IdleStatusSync
    /\ UNCHANGED <<posLive, run, pending, fresh, recovering, lastRun, log>>
    /\ UNCHANGED <<offerVars, posVars, rankVars, httpGot, probe, asked, ttlVars, cronVars>>

\* The step in which the durable update of d is fulfilled.
StatusSyncUpdateStep(d) ==
    /\ d \in statusSync.waiting
    /\ d \notin statusSync'.waiting
    /\ d \notin statusSync'.failedUpdates

\* C31: a sync run does not set isOnline of a Driver document back to
\* true when the document says false and the status last set through
\* updateDriverStatus or blockDriver is false, and the same for
\* isAvailable.
C31_SyncKeepsOffline ==
    [][\A d \in StatusDrivers :
          StatusSyncUpdateStep(d) =>
              /\ (~driverDoc[d].isOnline /\ ~asked[d].isOnline)
                     => ~driverDoc'[d].isOnline
              /\ (~driverDoc[d].isAvailable /\ ~asked[d].isAvailable)
                     => ~driverDoc'[d].isAvailable]_vars

\* ---------------------------------------------- sync claims, errors
\* The step in which invocation t, having passed the guard, returns to
\* its caller.
ReturnStep(t) ==
    /\ run[t].pc \notin {"idle", "suppressed"}
    /\ run'[t].pc = "idle"
    /\ lastRun' # "none"

C36_StoreErrorAnsweredFailed ==
    \A u \in Users : acc[u].answer \in {None, "success", "failed"}

\* ------------------------------------------------- disconnect claims
\* A position record without regard to its connection handle.
SansHandle(rec) == [rec EXCEPT !.socketId = NoSocket]

\* C32: the write of a disconnect leaves the position record of the driver
\* as the latest upsert wrote it, the connection handle apart, and leaves
\* the cell sets as they are: no field of the record other than socketId
\* differs from what the store held when the write was made.
C32_DisconnectChangesOnlyHandle ==
    [][\A s \in DriverSocks :
          DisconnectStoreStep(s) =>
              LET d == DriverOf(OwnerOf(s)) IN
              /\ SansHandle(loc'[d]) = SansHandle(loc[d])
              /\ h3set' = h3set]_vars

\* C33: a disconnect, or a registration that finds a position record,
\* does not give the record a new TTL: among the keys with a 300 s TTL
\* the record keeps its place, so that it runs out 300 s after the last
\* upsert. (A registration gives the set of its cell a new TTL.)
C33_ConnectionEventsKeepTtl ==
    [][\A s \in DriverSocks :
          LET d == DriverOf(OwnerOf(s)) IN
          /\ (DisconnectStoreStep(s) /\ loc[d].present)
                 => ttlQueue' = ttlQueue
          /\ (RegisterStoreStep(s) /\ reg[s].existing.present /\ loc[d].present)
                 => ttlQueue' = Touch(ttlQueue, reg[s].cell)]_vars

\* The step in which an HTTP location update writes the record of d.
HttpUpdateStep(d) ==
    /\ reg' = reg /\ upd' = upd /\ chan' = chan
    /\ loc'[d] # loc[d]
    /\ loc'[d].present

\* C34: an HTTP location update leaves the socketId of the position record
\* as it was, and a driver that sendRideRequestToDrivers would have sent
\* the request to before it is one it would send the request to after it.
C34_HttpUpdateKeepsHandle ==
    [][\A d \in DriverIds :
          HttpUpdateStep(d) =>
              /\ loc'[d].socketId = loc[d].socketId
              /\ Dispatchable(loc[d]) => Dispatchable(loc'[d])]_vars

\* ----------------------------------------- sadd, then expire
\* The writers of the cell sets.
CellWriters == {"registerUser", "updateUserLocation"}

\* redis.sadd of lines 159 and 220 by writer w, driver d into the set of
\* cell c: a set that did not exist is created, with no TTL; a set that
\* exists keeps the TTL it has or has not. The expire of the next line is
\* a store call of its own, made after this one has returned.
CellSadd(w, d, c) ==
    /\ setWrite[w].pc = "idle"
    /\ h3set' = CellAdd(h3set, c, d)
    /\ noExpiry' = IF h3set[c] = {}
                   THEN [noExpiry EXCEPT !.cells = @ \cup {c}]
                   ELSE noExpiry
    /\ setWrite' = [setWrite EXCEPT ![w] = [pc |-> "expire", cell |-> c]]
    /\ UNCHANGED offerVars
    /\ UNCHANGED <<chan, connectedUsers, reg, disc, upd, driverDoc, everReg, ttlQueue, query>>
    /\ UNCHANGED <<syncVars, rankVars, httpGot, probe, statVars, cronVars>>

\* redis.expire of lines 160 and 221: the set has a TTL of 300 s.
CellExpire(w) ==
    /\ w \in CellWriters
    /\ setWrite[w].pc = "expire"
    /\ noExpiry' = [noExpiry EXCEPT !.cells = @ \ {setWrite[w].cell}]
    /\ setWrite' = [setWrite EXCEPT ![w] = IdleSetWrite]
    /\ UNCHANGED <<offerVars, posVars, syncVars, rankVars, httpGot, probe, statVars, cronVars>>

\* redis.sadd of line 275 for request r and driver d.
SentSadd(r, d) ==
    /\ setWrite["sendRideRequestToDrivers"].pc = "idle"
    /\ sentKey' = [sentKey EXCEPT ![r] = @ \cup {d}]
    /\ noExpiry' = IF sentKey[r] = {}
                   THEN [noExpiry EXCEPT !.sent = @ \cup {r}]
                   ELSE noExpiry
    /\ setWrite' = [setWrite EXCEPT !["sendRideRequestToDrivers"].pc = "expire"]
    /\ UNCHANGED <<reqKey, reqTtlElapsed, acceptedKey, socketUser, loc, send, timer,
                   acc, riderGot, driverGot, sentAtAccept, rejected, riderLive,
                   requested, cancelled>>
    /\ UNCHANGED <<posVars, syncVars, rankVars, httpGot, probe, statVars, cronVars>>

\* redis.expire of line 276: the sent set has a TTL of 20 s.
SentExpire(r) ==
    /\ setWrite["sendRideRequestToDrivers"].pc = "expire"
    /\ noExpiry' = [noExpiry EXCEPT !.sent = @ \ {r}]
    /\ setWrite' = [setWrite EXCEPT !["sendRideRequestToDrivers"] = IdleSetWrite]
    /\ UNCHANGED <<offerVars, posVars, syncVars, rankVars, httpGot, probe, statVars, cronVars>>

\* The expire call of writer w throws: the catch block of the handler
\* (lines 168, 226, 280) logs, and the handler makes no further store
\* call.
ExpireFails(w) ==
    /\ setWrite[w].pc = "expire"
    /\ setWrite' = [setWrite EXCEPT ![w] = IdleSetWrite]
    /\ UNCHANGED noExpiry
    /\ UNCHANGED <<offerVars, posVars, syncVars, rankVars, httpGot, probe, statVars, cronVars>>

\* The process stops while a writer is between its sadd and its expire:
\* the store keeps its keys, no handler is left.
ProcessStops ==
    /\ \E w \in SetWriters : setWrite[w].pc = "expire"
    /\ setWrite' = [w \in SetWriters |-> IdleSetWrite]
    /\ UNCHANGED noExpiry
    /\ UNCHANGED <<offerVars, posVars, syncVars, rankVars, httpGot, probe, statVars, cronVars>>

\* The TTL of the set of cell c elapses; a set with no TTL stays.
CellKeyTtl(c) ==
    /\ h3set[c] # {}
    /\ c \notin noExpiry.cells
    /\ h3set' = [h3set EXCEPT ![c] = {}]
    /\ UNCHANGED offerVars
    /\ UNCHANGED <<chan, connectedUsers, reg, disc, upd, driverDoc, everReg, ttlQueue, query>>
    /\ UNCHANGED <<syncVars, rankVars, ctlVars>>

\* The TTL of the sent set of request r elapses; a set with no TTL stays.
SentKeyTtl(r) ==
    /\ sentKey[r] # {}
    /\ r \notin noExpiry.sent
    /\ sentKey' = [sentKey EXCEPT ![r] = {}]
    /\ UNCHANGED <<reqKey, reqTtlElapsed, acceptedKey, socketUser, loc, send, timer,
                   acc, riderGot, driverGot, sentAtAccept, rejected, riderLive,
                   requested, cancelled>>
    /\ UNCHANGED <<posVars, syncVars, rankVars, ctlVars>>

\* C39: no cell set and no sent set exists without a TTL, at any time.
C39_SetKeysAlwaysExpire ==
    /\ noExpiry.cells = {}
    /\ noExpiry.sent = {}

\* -------------------------------------------------------------- SpecRank
\* The ranking of the candidates of one ring.
NextRank ==
    \/ \E i \in 1..MaxCandidates, outcome \in RouteOutcomes : RankRoute(i, outcome)
    \/ RankSort

InitRankSpec ==
    /\ InitOfferIdle /\ InitPos /\ InitSync /\ InitRankInputs
    /\ probe = IdleProbe
    /\ InitCtl

SpecRank == InitRankSpec /\ [][NextRank]_vars

\* -------------------------------------------------------------- SpecProbe
\* The ring search for one eligible driver.
NextProbe ==
    \/ ProbeFound
    \/ ProbeNextRing
    \/ ProbeEmpty

InitProbeSpec ==
    /\ InitOfferIdle /\ InitPos /\ InitSync
    /\ rank = IdleRank
    /\ InitProbeInputs
    /\ InitCtl

SpecProbe == InitProbeSpec /\ [][NextProbe]_vars

\* ------------------------------------------------------------ SpecStatus
\* The status endpoints, the position upserts of one driver and the sync
\* run that carries the records to the durable store.
NextStatus ==
    \/ \E d \in StatusDrivers : AddToActiveSet(SyncIdOf(d))
    \/ \E d \in StatusDrivers : HttpUpdateLocation(UserOf(d), HomeCell)
    \/ \E d \in StatusDrivers : LocTtl(d)
    \/ \E d \in StatusDrivers, isOnline \in BodyFlags, isAvailable \in BodyFlags :
          UpdateDriverStatus(UserOf(d), isOnline, isAvailable)
    \/ \E d \in StatusDrivers, isBlocked \in BOOLEAN : BlockDriver(d, isBlocked)
    \/ StatusSyncStart
    \/ StatusSyncMove
    \/ \E d \in StatusDrivers : StatusSyncGet(d)
    \/ \E d \in StatusDrivers, ok \in BOOLEAN : StatusSyncUpdate(d, ok)
    \/ StatusSyncEnd

InitStatusSpec == InitOfferIdle /\ InitPos /\ InitSync /\ InitRank

SpecStatus == InitStatusSpec /\ [][NextStatus]_vars

\* ------------------------------------------------------------ SpecCells
\* Position upserts over the cells and key expiry: one driver on one
\* connection and over HTTP, the others over HTTP.
CellSocks == {Sock(<<"u", 1>>, 1)}

NextCells ==
    \/ \E s \in CellSocks, c \in Cells : RegisterUser(s, c)
    \/ \E s \in CellSocks : RegisterStore(s)
    \/ \E s \in CellSocks, i \in Slots, c \in Cells : UpdateLoad(s, i, c)
    \/ \E s \in CellSocks, i \in Slots : UpdateStore(s, i)
    \/ \E u \in Users, c \in Cells : HttpUpdateLocation(u, c)
    \/ \E d \in DriverIds : LocTtl(d)
    \/ \E c \in Cells : CellTtl(c)

InitCellsSpec == InitOfferIdle /\ InitPos /\ InitSync /\ InitRank

SpecCells == InitCellsSpec /\ [][NextCells]_vars

\* -------------------------------------------------------------- SpecKeys
\* The set keys written with sadd and then expire, store call by store
\* call.
NextKeys ==
    \/ \E w \in CellWriters, d \in DriverIds, c \in Cells : CellSadd(w, d, c)
    \/ \E w \in CellWriters : CellExpire(w)
    \/ \E r \in Requests, d \in DriverIds : SentSadd(r, d)
    \/ \E r \in Requests : SentExpire(r)
    \/ \E w \in SetWriters : ExpireFails(w)
    \/ ProcessStops
    \/ \E c \in Cells : CellKeyTtl(c)
    \/ \E r \in Requests : SentKeyTtl(r)

InitKeysSpec == InitOfferIdle /\ InitPos /\ InitSync /\ InitRank

SpecKeys == InitKeysSpec /\ [][NextKeys]_vars

\* ------------------------------------------------------------ SpecAccept
\* The fan-out of an offer and the ride:accept calls of its drivers, with
\* store calls that fail.
NextAccept ==
    \/ \E r \in Requests, ids \in SUBSET DriverIds : SendStore(r, ids)
    \/ \E r \in Requests, d \in DriverIds : SendToDriver(r, d)
    \/ \E r \in Requests : SendSetTimer(r)
    \/ \E u \in Users, r \in Requests : AcceptLoad(u, r)
    \/ \E u \in Users : AcceptCheck(u)
    \/ \E u \in Users : AcceptMark(u)
    \/ \E u \in Users : AcceptNotify(u)
    \/ \E u \in Users : AcceptCleanup(u)
    \/ \E u \in Users, r \in Requests : AcceptStoreError(u, r)

InitAcceptSpec == InitOffer /\ InitPos /\ InitSync /\ InitRank

SpecAccept == InitAcceptSpec /\ [][NextAccept]_vars

\* ------------------------------------------------------------- SpecLeave
\* One connection of a driver registering, sending positions and
\* disconnecting, while the driver posts positions over HTTP.
NextLeave ==
    \/ \E s \in CellSocks, c \in Cells : RegisterUser(s, c)
    \/ \E s \in CellSocks : RegisterStore(s)
    \/ \E s \in CellSocks, c \in Cells : UpdateLoad(s, 1, c)
    \/ \E s \in CellSocks : UpdateStore(s, 1)
    \/ \E s \in CellSocks : HandleDisconnect(s)
    \/ \E s \in CellSocks : DisconnectStore(s)
    \/ \E s \in CellSocks, c \in Cells : HttpUpdateLocation(OwnerOf(s), c)
    \/ \E s \in CellSocks : LocTtl(DriverOf(OwnerOf(s)))

InitLeaveSpec == InitOfferIdle /\ InitPos /\ InitSync /\ InitRank

SpecLeave == InitLeaveSpec /\ [][NextLeave]_vars

\* ------------------------------------------------------------ SpecQuery
\* The nearby query while positions are written over HTTP, keys run out
\* and the admin endpoints change the Driver documents: the first driver
\* is blocked and unblocked, the last one verified and unverified.
BlockedDrivers == {<<"d", 1>>}
VerifiedDrivers == {<<"d", NumOfferDrivers>>}

NextQuery ==
    \/ \E u \in Users, c \in Cells : HttpUpdateLocation(u, c)
    \/ \E d \in DriverIds : LocTtl(d)
    \/ \E c \in Cells : CellTtl(c)
    \/ \E d \in BlockedDrivers, b \in BOOLEAN : BlockDriver(d, b)
    \/ \E d \in VerifiedDrivers, b \in BOOLEAN : VerifyDriver(d, b)
    \/ \E c \in Cells : QueryStart(c)
    \/ \E c \in Cells : QueryReadCell(c)
    \/ QueryRingRead
    \/ \E d \in DriverIds : QueryGetRecord(d)
    \/ \E d \in DriverIds : QueryGetDoc(d)
    \/ QueryRingDone

InitQuerySpec == InitOfferIdle /\ InitPos /\ InitSync /\ InitRank

SpecQuery == InitQuerySpec /\ [][NextQuery]_vars

\* --------------------------------------------------------- SpecDispatch
\* An offer fanned out while position records expire and are rewritten
\* over HTTP.
NextDispatch ==
    \/ \E r \in Requests, ids \in SUBSET DriverIds : SendStore(r, ids)
    \/ \E r \in Requests, d \in DriverIds : SendToDriver(r, d)
    \/ \E r \in Requests : SendSetTimer(r)
    \/ \E d \in DriverIds : LocTtl(d)
    \/ \E u \in Users : HttpUpdateLocation(u, HomeCell)

InitDispatchSpec == InitOffer /\ InitPos /\ InitSync /\ InitRank

SpecDispatch == InitDispatchSpec /\ [][NextDispatch]_vars

\* Connections and dispatch, no position record at the start.
InitChannelSpec == InitOfferIdle /\ InitPos /\ InitSync /\ InitRank

SpecChannel == InitChannelSpec /\ [][NextChannel]_vars

\* The offer protocol, the sync worker at rest.
InitOfferSpec == InitOffer /\ InitPos /\ InitSync /\ InitRank

SpecOffer == InitOfferSpec /\ [][NextOffer]_vars

====
